---- MODULE Spec2Model ----
(***************************************************************************)
(* hytale-name: the concurrent sharded query engine of src/index.js.       *)
(*                                                                         *)
(* src/index.js holds two programs: the orchestrator (lines 1-471, main)   *)
(* and the worker (lines 474-701, worker.js).  The module has three        *)
(* specifications:                                                         *)
(*   SpecLimiter  pLimit alone, under arbitrary submissions;               *)
(*   Spec         one run of the engine: workers, requests, retries,       *)
(*                result messages and the orchestrator's processResult;    *)
(*   SpecLedger   a sequence of runs over one output directory: the sinks  *)
(*                and the failure ledger errors.txt.                       *)
(***************************************************************************)
EXTENDS Integers, Sequences, FiniteSets, TLC

(***************************************************************************)
(* Bounds of the model.                                                    *)
(***************************************************************************)
\* largest limit given to pLimit / largest --concurrency
MaxLimit == 2
\* number of tasks submitted to the limiter of SpecLimiter
MaxTasks == 4
\* longest key list of a run of Spec
MaxKeys == 2
\* largest --workers
MaxWorkers == 2
\* largest --batch (httpBatchSize)
MaxBatch == 2
\* largest retry limit given to withRetry
MaxRetries == 1
\* longest results array in the body of a batch response
MaxBody == 3
\* number of runs over one output directory in SpecLedger
MaxRuns == 2

VARIABLES
  \* ---- SpecLimiter: one limiter created by pLimit(max) ----
  max,        \* the limit the limiter was created with
  active,     \* pLimit: let active
  queue,      \* pLimit: const queue (task ids, oldest first)
  taskState,  \* per task: "new", "queued", "running", "settled", "finished"
  settledAs,  \* per task: "none", "res" or "rej": how the caller's promise settled
  startOrder, \* history: the tasks in the order fn() was called
  startedBy   \* history, per task: "none", or the call of next() that started
              \* it: "submit" (from limit(fn)) or "finally" (from a completion)

limVars == <<max, active, queue, taskState, settledAs, startOrder, startedBy>>

VARIABLES
  \* ---- the run's configuration (main, workerData) ----
  usernames,      \* main: the key list handed to shardArray
  workers,        \* main: const workers
  concurrency,    \* workerData.concurrency (main: const conc)
  httpBatchSize,  \* workerData.httpBatchSize
  retries,        \* withRetry: retries
  \* ---- the workers, each a function of the worker id 0..workers-1 ----
  wActive,        \* pLimit of run(): active
  wQueue,         \* pLimit of run(): queue (indexes of httpBatches)
  tasks,          \* per HTTP batch group: the position of its task
  batch,          \* worker.js: let batch (results not yet posted)
  port,           \* parentPort: messages posted and not yet handled by main
  wpc,            \* "running", "closing", "faulted", "exit0", "exit1"
  \* ---- history of the requests ----
  gets,           \* per key: the single-key GETs issued for it
  posts,          \* per worker and group: the batch POSTs issued for it
  batchAnswer     \* per worker and group: the last answer to its batch POST

workerVars == <<usernames, workers, concurrency, httpBatchSize, retries,
                wActive, wQueue, tasks, batch, port, wpc,
                gets, posts, batchAnswer>>

VARIABLES
  \* ---- the orchestrator (main) ----
  isRetryMode,    \* main: let isRetryMode
  availStream,    \* lines written to availStream in this run
  takenStream,    \* lines written to takenStream in this run
  errStream,      \* lines written to errStream in this run
  resolvedUsers,  \* main: const resolvedUsers (a Set)
  newErrors,      \* main: const newErrors (a Map, in insertion order)
  exitCode,       \* per worker: "none", or the code of its exit event
  mpc,            \* main: "idle", "running", "complete", "fatal", "interrupted"
  \* ---- the output directory ----
  availFile,      \* available.txt: its lines
  takenFile,      \* taken.txt: its lines
  errFile,        \* errors.txt, the failure ledger: its lines
  \* ---- history of the runs ----
  runs,           \* the number of runs started over the directory
  prevLedger,     \* the lines of errors.txt when the run's sinks were opened
  seen,           \* the results processResult has handled in this run, in order
  lastSeen        \* per name: its most recent outcome handled in any run

mainVars == <<isRetryMode, availStream, takenStream, errStream,
              resolvedUsers, newErrors, exitCode, mpc>>
diskVars == <<availFile, takenFile, errFile>>
histVars == <<runs, prevLedger, seen, lastSeen>>

VARIABLES
  \* ---- main, from the input file to the spawning of the workers ----
  content,        \* main: const content, as the lines of the input file
  argStart,       \* args.start (0: not given)
  argFrom,        \* args.from ("": not given)
  argAppend,      \* args.append
  skipped,        \* main: let skipped
  shards,         \* main: const shards
  sinksOpen       \* whether main has created its write streams

inputVars == <<content, argStart, argFrom, argAppend, skipped, shards, sinksOpen>>

VARIABLES
  \* ---- one call of withRetry(fn, retries) ----
  rLimit,         \* withRetry: retries
  rI,             \* withRetry: let i
  rErr,           \* withRetry: let err (the message of the error it holds)
  rPos,           \* "idle", "call" (fn() is running), "backoff", "returned"
  rResult,        \* what withRetry has returned: [ok, val, err]
  rCalls,         \* history: the number of times fn was invoked
  rLast,          \* history: how the last invocation of fn was answered
  rDelay          \* history: the delay of the backoff entered last

retryVars == <<rLimit, rI, rErr, rPos, rResult, rCalls, rLast, rDelay>>

VARIABLES
  \* ---- the result buffer of one worker (worker.js, lines 654-667) ----
  bSize,          \* const BATCH
  bBatch,         \* let batch
  bPort,          \* parentPort: the messages posted
  bPos,           \* run(): "idle", "running", "closing", "faulted", "exit0", "exit1"
  bPushed         \* history: the results pushed, in their order

bufVars == <<bSize, bBatch, bPort, bPos, bPushed>>

vars == <<inputVars, retryVars, bufVars, limVars, workerVars, mainVars, diskVars, histVars>>

(***************************************************************************)
(* pLimit (worker.js)                                                      *)
(***************************************************************************)
Tasks == 1..MaxTasks

\* a limiter that compares with > where pLimit compares with >=
nextReturnsEarlyOffByOne(act, q, mx) == act > mx \/ Len(q) = 0

\* a limiter that keeps one place free
nextReturnsEarlyBelowLimit(act, q, mx) == act >= mx - 1 \/ Len(q) = 0

\* line 529: if (active >= max || !queue.length) return;
nextReturnsEarly(act, q, mx) == act >= mx \/ Len(q) = 0

\* a limiter that takes the newest waiting task (queue.pop()) where pLimit
\* takes the oldest (queue.shift())
nextTakesNewest(act, q, mx) ==
  IF nextReturnsEarly(act, q, mx)
  THEN <<act, q, <<>>>>
  ELSE <<act + 1, SubSeq(q, 1, Len(q) - 1), <<q[Len(q)]>>>>

\* const next = () => {...}: the limiter after one call of next().
\* The result is <<active, queue, started>>, started the sequence of the
\* tasks whose fn() this call invoked (none or one).
next(act, q, mx) ==
  IF nextReturnsEarly(act, q, mx)
  THEN <<act, q, <<>>>>
  ELSE <<act + 1, Tail(q), <<Head(q)>>>>

\* The specifications that do not run this part leave it as it is here.
InitWorkersIdle ==
  /\ usernames = <<>>
  /\ workers = 0
  /\ concurrency = 0
  /\ httpBatchSize = 0
  /\ retries = 0
  /\ wActive = <<>>
  /\ wQueue = <<>>
  /\ tasks = <<>>
  /\ batch = <<>>
  /\ port = <<>>
  /\ wpc = <<>>
  /\ gets = <<>>
  /\ posts = <<>>
  /\ batchAnswer = <<>>

InitMainIdle ==
  /\ isRetryMode = FALSE
  /\ availStream = <<>>
  /\ takenStream = <<>>
  /\ errStream = <<>>
  /\ resolvedUsers = {}
  /\ newErrors = <<>>
  /\ exitCode = <<>>
  /\ mpc = "idle"
  /\ availFile = <<>>
  /\ takenFile = <<>>
  /\ errFile = <<>>
  /\ runs = 0
  /\ prevLedger = <<>>
  /\ seen = <<>>
  /\ lastSeen = <<>>

InitInputIdle ==
  /\ content = <<>>
  /\ argStart = 0
  /\ argFrom = ""
  /\ argAppend = FALSE
  /\ skipped = 0
  /\ shards = <<>>
  /\ sinksOpen = FALSE

InitRetryIdle ==
  /\ rLimit = 0
  /\ rI = 0
  /\ rErr = ""
  /\ rPos = "idle"
  /\ rResult = [ok |-> FALSE, val |-> "none", err |-> ""]
  /\ rCalls = 0
  /\ rLast = "none"
  /\ rDelay = 0

InitBufferIdle ==
  /\ bSize = 0
  /\ bBatch = <<>>
  /\ bPort = <<>>
  /\ bPos = "idle"
  /\ bPushed = <<>>

InitLimiterIdle ==
  /\ InitInputIdle
  /\ InitRetryIdle
  /\ InitBufferIdle
  /\ max = 0
  /\ active = 0
  /\ queue = <<>>
  /\ taskState = <<>>
  /\ settledAs = <<>>
  /\ startOrder = <<>>
  /\ startedBy = <<>>

InitLimiter ==
  /\ InitInputIdle
  /\ InitRetryIdle
  /\ InitBufferIdle
  /\ InitWorkersIdle
  /\ InitMainIdle
  /\ max \in 1..MaxLimit
  /\ active = 0
  /\ queue = <<>>
  /\ taskState = [t \in Tasks |-> "new"]
  /\ settledAs = [t \in Tasks |-> "none"]
  /\ startOrder = <<>>
  /\ startedBy = [t \in Tasks |-> "none"]

\* Tasks are named by their submission order: the next submission is the
\* least task not yet submitted.
NextToSubmit(t) ==
  /\ taskState[t] = "new"
  /\ \A u \in Tasks : u < t => taskState[u] # "new"

\* return fn => new Promise((res, rej) => { queue.push({fn, res, rej}); next(); })
Submit(t) ==
  /\ NextToSubmit(t)
  /\ LET n == next(active, Append(queue, t), max)
         started == n[3]
     IN /\ active' = n[1]
        /\ queue' = n[2]
        /\ taskState' = [u \in Tasks |->
                           IF u = t
                           THEN (IF started = <<t>> THEN "running" ELSE "queued")
                           ELSE IF started = <<u>> THEN "running"
                           ELSE taskState[u]]
        /\ startOrder' = startOrder \o started
        /\ startedBy' = [u \in Tasks |->
                           IF started = <<u>> THEN "submit" ELSE startedBy[u]]
  /\ UNCHANGED <<inputVars, retryVars, bufVars, max, settledAs, workerVars, mainVars, diskVars, histVars>>

\* fn().then(res, rej): the task's promise settles, by success (res) or by
\* failure (rej); the finally callback has not run yet.
Settle(t, how) ==
  /\ taskState[t] = "running"
  /\ taskState' = [taskState EXCEPT ![t] = "settled"]
  /\ settledAs' = [settledAs EXCEPT ![t] = how]
  /\ UNCHANGED <<inputVars, retryVars, bufVars, max, active, queue, startOrder, startedBy,
                 workerVars, mainVars, diskVars, histVars>>

\* .finally(() => { active--; next(); })
Finally(t) ==
  /\ taskState[t] = "settled"
  /\ LET n == next(active - 1, queue, max)
         started == n[3]
     IN /\ active' = n[1]
        /\ queue' = n[2]
        /\ taskState' = [u \in Tasks |->
                           IF u = t THEN "finished"
                           ELSE IF started = <<u>> THEN "running"
                           ELSE taskState[u]]
        /\ startOrder' = startOrder \o started
        /\ startedBy' = [u \in Tasks |->
                           IF started = <<u>> THEN "finally" ELSE startedBy[u]]
  /\ UNCHANGED <<inputVars, retryVars, bufVars, max, settledAs, workerVars, mainVars, diskVars, histVars>>

NextLimiter ==
  \/ \E t \in Tasks : Submit(t)
  \/ \E t \in Tasks, how \in {"res", "rej"} : Settle(t, how)
  \/ \E t \in Tasks : Finally(t)

SpecLimiter == InitLimiter /\ [][NextLimiter]_vars

\* Every running task completes in the end, and the callbacks of a settled
\* promise run: then(res, rej) and finally(...) of line 532.
SpecLimiterLive ==
  /\ SpecLimiter
  /\ \A t \in Tasks : WF_vars(\E how \in {"res", "rej"} : Settle(t, how))
  /\ \A t \in Tasks : WF_vars(Finally(t))

(***************************************************************************)
(* Claims about the limiter                                                *)
(***************************************************************************)
\* the tasks whose fn() has been called and whose promise has not settled
Running == {t \in Tasks : taskState[t] = "running"}

\* C2: a limiter created with limit C never has more than C admitted tasks
\* that have started and not yet completed, whatever the submission pattern.
C2_AtMostCRunning ==
  /\ Cardinality(Running) <= max
  /\ active <= max

\* C2 witness: a burst larger than the limit was submitted, the limiter is
\* full and a task is waiting.
C2_Witness ==
  /\ Cardinality(Running) = max
  /\ Len(queue) >= 1
  /\ \E t \in Tasks : taskState[t] = "finished"

\* The tasks start in submission order. Tasks are numbered by submission,
\* so the start history lists 1, 2, 3, ... without a gap, and the queue holds
\* the next numbers in order.
StartOrderIsFifo ==
  /\ \A i \in 1..Len(startOrder) : startOrder[i] = i
  /\ \A i \in 1..Len(queue) : queue[i] = Len(startOrder) + i

\* A step in which the finally callback of a task runs while a task waits:
\* the task at the head of the queue is running after the step.
HeadAdmittedOnCompletion ==
  \A t \in Tasks :
    (taskState[t] = "settled" /\ taskState'[t] = "finished" /\ Len(queue) > 0)
      => /\ taskState'[Head(queue)] = "running"
         /\ queue' = Tail(queue)

\* C3: the limiter admits tasks in submission (FIFO) order: a task submitted
\* earlier is started no later than one submitted after it, and whenever a
\* running task completes, by success or by failure, while the queue is not
\* empty, the task at the head of the queue is admitted.
C3_FifoAdmission == []StartOrderIsFifo /\ [][HeadAdmittedOnCompletion]_vars

\* C3 witness: a task that had to wait was admitted by the completion of a
\* task that failed, while another task was still waiting behind it.
C3_Witness ==
  \E t \in Tasks :
    /\ startedBy[t] = "finally"
    /\ taskState[t] = "running"
    /\ \E u \in Tasks : settledAs[u] = "rej" /\ taskState[u] = "finished"
    /\ Len(queue) > 0

(***************************************************************************)
(* The engine: data                                                        *)
(***************************************************************************)
\* The keys a list may hold, in their sorted order, and a name that is in no
\* list: what a batch response may name besides the keys it was asked for.
\* Foreign is shorter than MIN_LEN: main filters it out of every input.
NameTable == <<"apple", "banana", "cherry", "durian", "elder", "fig">>
Foreign == "zz"

\* the names of the model
Names == {NameTable[i] : i \in 1..MaxKeys} \cup {Foreign}

\* const MIN_LEN = 3; const MAX_LEN = 10
MIN_LEN == 3
MAX_LEN == 10

\* u.toLowerCase(), for the names of the model that have capitals
toLowerCase(u) ==
  CASE u = "Apple" -> "apple" [] u = "APPLE" -> "apple"
    [] u = "BANANA" -> "banana" [] OTHER -> u

\* u.length
LengthOf(u) ==
  LET l == toLowerCase(u)
  IN CASE l = "apple" -> 5 [] l = "banana" -> 6 [] l = "cherry" -> 6
       [] l = "durian" -> 6 [] l = "elder" -> 5 [] l = "fig" -> 3 [] l = "zz" -> 2
       [] l = "ghost" -> 5

\* main, line 285: u.length >= MIN_LEN && u.length <= MAX_LEN
validLength(u) == LengthOf(u) >= MIN_LEN /\ LengthOf(u) <= MAX_LEN

WorkerIds == 0..(workers - 1)

Min(a, b) == IF a < b THEN a ELSE b

\* a sharding that counts the positions from one
shardArrayFromOne(arr, n) ==
  [s \in 0..(n - 1) |->
     LET F[i \in 0..Len(arr)] ==
           IF i = 0 THEN <<>>
           ELSE IF i % n = s THEN Append(F[i - 1], arr[i])
           ELSE F[i - 1]
     IN F[Len(arr)]]

\* function shardArray(arr, n): out[i % n].push(v), i the 0-based index.
\* The result is a function of the shard index 0..n-1.
shardArray(arr, n) ==
  [s \in 0..(n - 1) |->
     LET F[i \in 0..Len(arr)] ==
           IF i = 0 THEN <<>>
           ELSE IF (i - 1) % n = s THEN Append(F[i - 1], arr[i])
           ELSE F[i - 1]
     IN F[Len(arr)]]

\* run(): for (let i = 0; i < usernames.length; i += httpBatchSize)
\*          httpBatches.push(usernames.slice(i, i + httpBatchSize))
httpBatchesOf(shard, size) ==
  [g \in 1..((Len(shard) + size - 1) \div size) |->
     SubSeq(shard, (g - 1) * size + 1, Min(g * size, Len(shard)))]

\* the HTTP batch groups of worker w for the list us, nw workers and --batch size
batchesOf(us, nw, size, w) == httpBatchesOf(shardArray(us, nw)[w], size)

\* the HTTP batch groups of worker w in this run
httpBatches(w) == batchesOf(usernames, workers, httpBatchSize, w)

(***************************************************************************)
(* checkSingle and the error classes of withRetry                          *)
(***************************************************************************)
\* What the service may do with GET /check/{key}: answer 200 with
\* {available: true} or {available: false}, answer 429, 500 or 404, answer
\* 200 with a body whose available is no boolean, let the request run into
\* the headers timeout, or refuse the connection.
GetAnswers ==
  {"200 true", "200 false", "429", "500", "404", "200 invalid",
   "timeout", "refused"}

\* checkSingle: what it returns, or the message of the Error it throws.
checkSingle(answer) ==
  CASE answer = "200 true"    -> [threw |-> FALSE, available |-> "true", message |-> ""]
    [] answer = "200 false"   -> [threw |-> FALSE, available |-> "false", message |-> ""]
    [] answer = "429"         -> [threw |-> TRUE, available |-> "null", message |-> "Rate limited"]
    [] answer = "500"         -> [threw |-> TRUE, available |-> "null", message |-> "Server error (500)"]
    [] answer = "404"         -> [threw |-> TRUE, available |-> "null", message |-> "HTTP 404"]
    [] answer = "403"         -> [threw |-> TRUE, available |-> "null", message |-> "HTTP 403"]
    [] answer = "200 invalid" -> [threw |-> TRUE, available |-> "null", message |-> "Invalid response"]
    [] answer = "timeout"     -> [threw |-> TRUE, available |-> "null", message |-> "Headers Timeout Error"]
    [] answer = "refused"     -> [threw |-> TRUE, available |-> "null", message |-> "connect ECONNREFUSED"]

\* The alternatives of withRetry's regular expressions that occur in each
\* message (case-insensitively): "5dd" stands for 5\d\d.
MatchesIn(message) ==
  CASE message = "Rate limited"          -> {"rate"}
    [] message = "Server error (500)"    -> {"5dd"}
    [] message = "HTTP 404"              -> {}
    [] message = "HTTP 403"              -> {}
    [] message = "Invalid response"      -> {}
    [] message = "Headers Timeout Error" -> {"timeout"}
    [] message = "connect ECONNREFUSED"  -> {"ECONN"}
    [] OTHER                             -> {}

\* const isRateLimit = /rate|429/i.test(e.message)
isRateLimit(message) == MatchesIn(message) \cap {"rate", "429"} # {}

\* a classification that takes the generic HTTP errors for retryable as well
isRetryableOrHttp(message) ==
  \/ message \in {"HTTP 403", "HTTP 404"}
  \/ MatchesIn(message) \cap {"rate", "429", "5dd", "timeout", "ECONN", "ENOTFOUND",
                              "EAI_AGAIN", "UND_ERR", "ETIMEDOUT"} # {}

\* const isRetryable = /rate|429|5\d\d|timeout|ECONN|ENOTFOUND|EAI_AGAIN|UND_ERR|ETIMEDOUT/i.test(e.message)
isRetryable(message) ==
  MatchesIn(message) \cap {"rate", "429", "5dd", "timeout", "ECONN", "ENOTFOUND",
                           "EAI_AGAIN", "UND_ERR", "ETIMEDOUT"} # {}

\* a catch block that gives up on the last attempt only
givesUpAtLimitOnly(message, i, limit) == i = limit

\* withRetry, the catch block: if (!isRetryable || i === retries) return {ok: false, ...}
withRetryGivesUp(message, i, limit) == ~isRetryable(message) \/ i = limit

(***************************************************************************)
(* checkBatch: the batch answers                                           *)
(***************************************************************************)
\* One result: username, available ("true", "false" or "null") and error
\* ("" where the field is absent or null).
Result(u, a, e) == [username |-> u, available |-> a, error |-> e]

\* An element of a results array that is no object (null): reading its
\* username throws.
NullElement == Result("", "no object", "")

RangeOf(seq) == {seq[i] : i \in 1..Len(seq)}

\* the sequences over S of length at most n
SeqUpTo(S, n) == UNION {[1..k -> S] : k \in 0..n}

\* The results arrays a 200/201 batch response may carry for a group: any
\* records, for the keys asked or for another name, complete or not, each
\* with available true or no boolean (false goes the way of true, to the
\* other sink), and elements that are no objects.
ResultsBodies(group) ==
  SeqUpTo({Result(u, a, "") : u \in RangeOf(group) \cup {Foreign},
                              a \in {"true", "null"}}
            \cup {NullElement}, MaxBody)

\* The key-to-value maps a 200/201 batch response may carry for a group: per
\* key of the group true, false, or nothing (no field of that name, or a
\* field that is no boolean); the map of a body with unrelated fields only
\* has nothing for every key.
MapBodies(group) == [1..Len(group) -> {"true", "false", "absent"}]

\* line 606: usernameBatch.map(u => ({username: u, available: json[u] === true
\*           || json[u] === false ? json[u] : null}))
mapResults(group, body) ==
  [j \in 1..Len(group) |->
     Result(group[j], IF body[j] = "absent" THEN "null" ELSE body[j], "")]

(***************************************************************************)
(* push and flush                                                          *)
(***************************************************************************)
\* main: const ipcBatchSize = 1, passed as workerData.batchSize;
\* worker.js: const BATCH = verbose ? 1 : batchSize
ipcBatchSize == 1
BATCH == ipcBatchSize

\* function flush(): the buffer and the port after it, as <<batch, port>>.
\* A message is the sequence of its results (type 'result': one; 'batch': more).
flush(b, p) == IF Len(b) = 0 THEN <<b, p>> ELSE <<<<>>, Append(p, b)>>

\* function push(username, available, ttc, error = null)
push(b, p, r) ==
  LET b2 == Append(b, r)
  IN IF Len(b2) >= BATCH THEN flush(b2, p) ELSE <<b2, p>>

\* run(), lines 685-687: for (const r of results.val) push(r.username,
\* r.available, ..., r.error || null). Reading r.username of an element that
\* is no object throws: the loop stops there.
RECURSIVE pushResults(_, _, _)
pushResults(b, p, rs) ==
  IF Len(rs) = 0 THEN [batch |-> b, port |-> p, threw |-> FALSE]
  ELSE IF Head(rs) = NullElement THEN [batch |-> b, port |-> p, threw |-> TRUE]
  ELSE LET n == push(b, p, Head(rs))
       IN pushResults(n[1], n[2], Tail(rs))

\* run(), lines 690-692: for (const username of batch) push(username, null, ttc, results.err)
failedResults(group, err) == [j \in 1..Len(group) |-> Result(group[j], "null", err)]

(***************************************************************************)
(* processResult (main)                                                    *)
(***************************************************************************)
\* A line of errors.txt: key<TAB>reason.
Line(k, reason) == [key |-> k, reason |-> reason]

\* newErrors.set(username, reason): a Map keeps the place of a key it holds.
MapSet(m, k, v) ==
  IF \E i \in 1..Len(m) : m[i].key = k
  THEN [i \in 1..Len(m) |-> IF m[i].key = k THEN Line(k, v) ELSE m[i]]
  ELSE Append(m, Line(k, v))

MapHas(m, k) == \E i \in 1..Len(m) : m[i].key = k

\* r.error || 'Unknown'
ReasonOf(r) == IF r.error = "" THEN "Unknown" ELSE r.error

\* function processResult(r), on the record o of main's streams and sets.
processResult(o, r) ==
  IF r.available = "true"
  THEN [o EXCEPT !.availStream = Append(@, r.username),
                 !.resolvedUsers = @ \cup {r.username}]
  ELSE IF r.available = "false"
  THEN [o EXCEPT !.takenStream = Append(@, r.username),
                 !.resolvedUsers = @ \cup {r.username}]
  ELSE IF o.isRetryMode
  THEN [o EXCEPT !.newErrors = MapSet(@, r.username, ReasonOf(r))]
  ELSE [o EXCEPT !.errStream = Append(@, Line(r.username, ReasonOf(r)))]

\* w.on('message'): msg.type === 'result' ? processResult(msg)
\*                                        : msg.results.forEach(processResult)
RECURSIVE processMessage(_, _)
processMessage(o, msg) ==
  IF Len(msg) = 0 THEN o
  ELSE processMessage(processResult(o, Head(msg)), Tail(msg))

MainState ==
  [isRetryMode |-> isRetryMode, availStream |-> availStream,
   takenStream |-> takenStream, errStream |-> errStream,
   resolvedUsers |-> resolvedUsers, newErrors |-> newErrors]

(***************************************************************************)
(* The retry run's ledger rewrite (main, lines 416-440)                    *)
(***************************************************************************)
\* a rewrite that keeps the original line of every key that was not resolved,
\* retried or not
keepsLineUnlessResolved(line, resolved, errors) == line.key \notin resolved

\* for (const line of originalErrors) if (!resolvedUsers.has(username) &&
\*   !newErrors.has(username)) finalErrors.push(line)
keepsOriginalLine(line, resolved, errors) ==
  line.key \notin resolved /\ ~MapHas(errors, line.key)

\* finalErrors: the original lines kept, then one line per entry of newErrors
finalErrors(original, resolved, errors) ==
  LET F[i \in 0..Len(original)] ==
        IF i = 0 THEN <<>>
        ELSE IF keepsOriginalLine(original[i], resolved, errors)
        THEN Append(F[i - 1], original[i])
        ELSE F[i - 1]
  IN F[Len(original)] \o errors

(***************************************************************************)
(* The engine: the start of a run                                          *)
(***************************************************************************)
\* A task of run() at its start: withRetry's first attempt (i = 0) calls
\* checkBatch, which waits for its delay before the request.
StartedTask == [pc |-> "delay", i |-> 0, fb |-> <<>>]
QueuedTask == [pc |-> "queued", i |-> 0, fb |-> <<>>]

\* run(): httpBatches.map(batch => limit(...)): the limiter after the groups
\* 1..n were submitted in order, as <<active, queue, started>>.
limitAll(n, mx) ==
  LET F[k \in 0..n] ==
        IF k = 0 THEN <<0, <<>>, <<>>>>
        ELSE LET s == next(F[k - 1][1], Append(F[k - 1][2], k), mx)
             IN <<s[1], s[2], F[k - 1][3] \o s[3]>>
  IN F[n]

\* Worker w after the synchronous part of run(): its limiter and its tasks.
\* A worker with an empty shard goes on to flush() and pool.close() at once.
runStart(us, nw, conc, size, w) ==
  LET n == Len(batchesOf(us, nw, size, w))
      s == limitAll(n, conc)
  IN [active |-> s[1],
      queue |-> s[2],
      tasks |-> [g \in 1..n |-> IF g \in RangeOf(s[3]) THEN StartedTask ELSE QueuedTask],
      wpc |-> IF n = 0 THEN "closing" ELSE "running"]

\* The state after main has spawned the workers and every worker has run the
\* synchronous part of run(): a normal run in a fresh directory, the sinks
\* opened with flag 'w'.
Init ==
  /\ InitLimiterIdle
  /\ usernames \in {SubSeq(NameTable, 1, n) : n \in 1..MaxKeys}
  /\ workers \in 1..MaxWorkers
  /\ concurrency \in 1..MaxLimit
  /\ httpBatchSize \in 1..MaxBatch
  /\ retries \in 0..MaxRetries
  /\ wActive = [w \in WorkerIds |->
                  runStart(usernames, workers, concurrency, httpBatchSize, w).active]
  /\ wQueue = [w \in WorkerIds |->
                 runStart(usernames, workers, concurrency, httpBatchSize, w).queue]
  /\ tasks = [w \in WorkerIds |->
                runStart(usernames, workers, concurrency, httpBatchSize, w).tasks]
  /\ wpc = [w \in WorkerIds |->
              runStart(usernames, workers, concurrency, httpBatchSize, w).wpc]
  /\ batch = [w \in WorkerIds |-> <<>>]
  /\ port = [w \in WorkerIds |-> <<>>]
  /\ gets = [k \in RangeOf(usernames) |-> 0]
  /\ posts = [w \in WorkerIds |-> [g \in 1..Len(httpBatches(w)) |-> 0]]
  /\ batchAnswer = [w \in WorkerIds |-> [g \in 1..Len(httpBatches(w)) |-> "none"]]
  /\ isRetryMode = FALSE
  /\ availStream = <<>>
  /\ takenStream = <<>>
  /\ errStream = <<>>
  /\ resolvedUsers = {}
  /\ newErrors = <<>>
  /\ exitCode = [w \in WorkerIds |-> "none"]
  /\ mpc = "running"
  /\ availFile = <<>>
  /\ takenFile = <<>>
  /\ errFile = <<>>
  /\ runs = 1
  /\ prevLedger = <<>>
  /\ seen = <<>>
  /\ lastSeen = [u \in Names |-> "none"]

(***************************************************************************)
(* The engine: the worker's events                                         *)
(***************************************************************************)
\* the worker's event loop is alive
Alive(w) == mpc = "running" /\ wpc[w] \in {"running", "faulted"}

Group(w, g) == httpBatches(w)[g]

configVars == <<usernames, workers, concurrency, httpBatchSize, retries>>

\* The task of group g ends: its async function has pushed the results rs
\* (lines 683-693) and returned, or has thrown on an element of rs; then the
\* limiter's finally callback runs (active--, next()), which may start the
\* next task; and when the last task has returned, run() goes on to flush()
\* and pool.close() (lines 696-697). A throw rejects Promise.all and run():
\* its catch handler closes the pool and exits with code 1 (line 701).
TaskEnds(w, g, rs) ==
  LET pr == pushResults(batch[w], port[w], rs)
      n == next(wActive[w] - 1, wQueue[w], concurrency)
      tasks1 == [h \in DOMAIN tasks[w] |->
                   IF h = g THEN [pc |-> IF pr.threw THEN "threw" ELSE "done",
                                  i |-> tasks[w][g].i, fb |-> <<>>]
                   ELSE IF n[3] = <<h>> THEN StartedTask
                   ELSE tasks[w][h]]
      allDone == \A h \in DOMAIN tasks1 : tasks1[h].pc = "done"
      fl == IF allDone /\ wpc[w] = "running"
            THEN flush(pr.batch, pr.port) ELSE <<pr.batch, pr.port>>
  IN /\ wActive' = [wActive EXCEPT ![w] = n[1]]
     /\ wQueue' = [wQueue EXCEPT ![w] = n[2]]
     /\ tasks' = [tasks EXCEPT ![w] = tasks1]
     /\ batch' = [batch EXCEPT ![w] = fl[1]]
     /\ port' = [port EXCEPT ![w] = fl[2]]
     /\ wpc' = [wpc EXCEPT ![w] =
                  IF wpc[w] = "running" /\ pr.threw THEN "faulted"
                  ELSE IF wpc[w] = "running" /\ allDone THEN "closing"
                  ELSE @]

\* a checkBatch that sends the batch POST for a group of one key as well
DelayElapsedAlwaysPosts(w, g) ==
  /\ Alive(w)
  /\ tasks[w][g].pc = "delay"
  /\ tasks' = [tasks EXCEPT ![w][g].pc = "request"]
  /\ posts' = [posts EXCEPT ![w][g] = @ + 1]
  /\ IF Len(Group(w, g)) = 1
     THEN gets' = [gets EXCEPT ![Group(w, g)[1]] = @ + 1]
     ELSE UNCHANGED gets
  /\ UNCHANGED <<configVars, wActive, wQueue, batch, port, wpc, batchAnswer>>
  /\ UNCHANGED <<inputVars, retryVars, bufVars, limVars, mainVars, diskVars, histVars>>

\* checkSingle / checkBatch: the delay before a request is over and the
\* request is issued (pool.request): a GET for a group of one key, the batch
\* POST for a larger group.
DelayElapsed(w, g) ==
  /\ Alive(w)
  /\ tasks[w][g].pc = "delay"
  /\ tasks' = [tasks EXCEPT ![w][g].pc = "request"]
  /\ IF Len(Group(w, g)) = 1
     THEN /\ gets' = [gets EXCEPT ![Group(w, g)[1]] = @ + 1]
          /\ UNCHANGED posts
     ELSE /\ posts' = [posts EXCEPT ![w][g] = @ + 1]
          /\ UNCHANGED gets
  /\ UNCHANGED <<configVars, wActive, wQueue, batch, port, wpc, batchAnswer>>
  /\ UNCHANGED <<inputVars, retryVars, bufVars, limVars, mainVars, diskVars, histVars>>

\* checkBatch of a group of one key (line 573) under withRetry: the GET is
\* answered. A value ends the task with one result; an Error is caught by
\* withRetry, which gives up (every key of the group gets the error) or waits
\* for its backoff delay.
GetResponse(w, g, answer) ==
  /\ Alive(w)
  /\ tasks[w][g].pc = "request"
  /\ Len(Group(w, g)) = 1
  /\ LET c == checkSingle(answer)
     IN IF ~c.threw
        THEN TaskEnds(w, g, <<Result(Group(w, g)[1], c.available, "")>>)
        ELSE IF withRetryGivesUp(c.message, tasks[w][g].i, retries)
        THEN TaskEnds(w, g, failedResults(Group(w, g), c.message))
        ELSE /\ tasks' = [tasks EXCEPT ![w][g].pc = "backoff"]
             /\ UNCHANGED <<wActive, wQueue, batch, port, wpc>>
  /\ UNCHANGED <<configVars, gets, posts, batchAnswer>>
  /\ UNCHANGED <<inputVars, retryVars, bufVars, limVars, mainVars, diskVars, histVars>>

\* withRetry: the backoff delay is over: i++ and the next attempt calls fn().
BackoffElapsed(w, g) ==
  /\ Alive(w)
  /\ tasks[w][g].pc = "backoff"
  /\ tasks' = [tasks EXCEPT ![w][g] = [pc |-> "delay", i |-> @.i + 1, fb |-> <<>>]]
  /\ UNCHANGED <<configVars, wActive, wQueue, batch, port, wpc, gets, posts, batchAnswer>>
  /\ UNCHANGED <<inputVars, retryVars, bufVars, limVars, mainVars, diskVars, histVars>>

PostPending(w, g) ==
  /\ Alive(w)
  /\ tasks[w][g].pc = "request"
  /\ Len(Group(w, g)) > 1

\* what a results array is, for the history of the batch answers
resultsShape(group, body) ==
  IF \E j \in 1..Len(body) : body[j] = NullElement
  THEN "results, an element no object"
  ELSE IF /\ Len(body) = Len(group)
          /\ \A j \in 1..Len(body) : /\ body[j].username = group[j]
                                     /\ body[j].available \in {"true", "false"}
  THEN "results, one record per key"
  ELSE "results, not one record per key"

\* what a key-to-value map is, for the history of the batch answers
mapShape(body) ==
  IF \A j \in 1..Len(body) : body[j] # "absent" THEN "map, every key"
  ELSE IF \A j \in 1..Len(body) : body[j] = "absent" THEN "object, unrelated fields"
  ELSE "map, keys missing"

\* checkBatch, lines 598-603: the POST is answered 200/201 and the body has
\* an array results: checkBatch returns json.results as it is.
PostResults(w, g, body) ==
  /\ PostPending(w, g)
  /\ TaskEnds(w, g, body)
  /\ batchAnswer' = [batchAnswer EXCEPT ![w][g] = resultsShape(Group(w, g), body)]
  /\ UNCHANGED <<configVars, gets, posts>>
  /\ UNCHANGED <<inputVars, retryVars, bufVars, limVars, mainVars, diskVars, histVars>>

\* checkBatch, lines 605-610: the POST is answered 200/201 and the body is an
\* object without an array results: every key gets json[key], or null.
PostMap(w, g, body) ==
  /\ PostPending(w, g)
  /\ TaskEnds(w, g, mapResults(Group(w, g), body))
  /\ batchAnswer' = [batchAnswer EXCEPT ![w][g] = mapShape(body)]
  /\ UNCHANGED <<configVars, gets, posts>>
  /\ UNCHANGED <<inputVars, retryVars, bufVars, limVars, mainVars, diskVars, histVars>>

\* What else the batch endpoint may do: answer 200/201 with a body that is no
\* JSON, or JSON that is an array, a scalar or null; answer another status;
\* or fail (timeout, connection).
PostRejections == {"200, no object", "404", "failed"}

\* checkBatch, lines 611-618: nothing was returned: the fallback starts one
\* checkSingle per key of the group, all at once (Promise.all of the map).
PostRejected(w, g, why) ==
  /\ PostPending(w, g)
  /\ tasks' = [tasks EXCEPT ![w][g] =
                 [pc |-> "fallback", i |-> @.i,
                  fb |-> [j \in 1..Len(Group(w, g)) |->
                            [st |-> "delay", available |-> "null", error |-> ""]]]]
  /\ batchAnswer' = [batchAnswer EXCEPT ![w][g] = why]
  /\ UNCHANGED <<configVars, wActive, wQueue, batch, port, wpc, gets, posts>>
  /\ UNCHANGED <<inputVars, retryVars, bufVars, limVars, mainVars, diskVars, histVars>>

\* The fallback's checkSingle of the j-th key: its delay is over, the GET is
\* issued.
FallbackDelayElapsed(w, g, j) ==
  /\ Alive(w)
  /\ tasks[w][g].pc = "fallback"
  /\ tasks[w][g].fb[j].st = "delay"
  /\ tasks' = [tasks EXCEPT ![w][g].fb[j].st = "request"]
  /\ gets' = [gets EXCEPT ![Group(w, g)[j]] = @ + 1]
  /\ UNCHANGED <<configVars, wActive, wQueue, batch, port, wpc, posts, batchAnswer>>
  /\ UNCHANGED <<inputVars, retryVars, bufVars, limVars, mainVars, diskVars, histVars>>

\* checkBatch, lines 620-623, for one key: {username, available}, or
\* {username, available: null, error: e.message}
fallbackResult(u, available, message) == Result(u, available, message)

\* checkBatch, lines 618-628: the fallback's GET of the j-th key is answered.
\* With the last answer checkBatch returns the results and the task ends.
FallbackResponse(w, g, j, answer) ==
  /\ Alive(w)
  /\ tasks[w][g].pc = "fallback"
  /\ tasks[w][g].fb[j].st = "request"
  /\ LET c == checkSingle(answer)
         fb1 == [tasks[w][g].fb EXCEPT ![j] =
                   [st |-> "done", available |-> c.available, error |-> c.message]]
     IN IF \A h \in DOMAIN fb1 : fb1[h].st = "done"
        THEN TaskEnds(w, g, [h \in DOMAIN fb1 |->
                               fallbackResult(Group(w, g)[h], fb1[h].available, fb1[h].error)])
        ELSE /\ tasks' = [tasks EXCEPT ![w][g].fb = fb1]
             /\ UNCHANGED <<wActive, wQueue, batch, port, wpc>>
  /\ UNCHANGED <<configVars, gets, posts, batchAnswer>>
  /\ UNCHANGED <<inputVars, retryVars, bufVars, limVars, mainVars, diskVars, histVars>>

\* run(), lines 697-698: pool.close() is done: process.exit(0).
PoolClosed(w) ==
  /\ mpc = "running"
  /\ wpc[w] = "closing"
  /\ wpc' = [wpc EXCEPT ![w] = "exit0"]
  /\ UNCHANGED <<configVars, wActive, wQueue, tasks, batch, port, gets, posts, batchAnswer>>
  /\ UNCHANGED <<inputVars, retryVars, bufVars, limVars, mainVars, diskVars, histVars>>

\* line 701: run().catch(() => { pool.close().finally(() => process.exit(1)) })
FaultExit(w) ==
  /\ mpc = "running"
  /\ wpc[w] = "faulted"
  /\ wpc' = [wpc EXCEPT ![w] = "exit1"]
  /\ UNCHANGED <<configVars, wActive, wQueue, tasks, batch, port, gets, posts, batchAnswer>>
  /\ UNCHANGED <<inputVars, retryVars, bufVars, limVars, mainVars, diskVars, histVars>>

(***************************************************************************)
(* The engine: the orchestrator's events                                   *)
(***************************************************************************)
\* the outcome a result shows, as processResult tells them apart
OutcomeOf(r) ==
  IF r.available = "true" THEN "available"
  ELSE IF r.available = "false" THEN "taken"
  ELSE "error"

\* the history lastSeen after the results of a message
RECURSIVE noteResults(_, _)
noteResults(ls, msg) ==
  IF Len(msg) = 0 THEN ls
  ELSE noteResults([ls EXCEPT ![Head(msg).username] = OutcomeOf(Head(msg))], Tail(msg))

\* main, lines 387-390: w.on('message', ...): the oldest message of worker w
\* is handled, its results by processResult, one after the other.
OnMessage(w) ==
  /\ mpc = "running"
  /\ Len(port[w]) > 0
  /\ LET o == processMessage(MainState, Head(port[w]))
     IN /\ availStream' = o.availStream
        /\ takenStream' = o.takenStream
        /\ errStream' = o.errStream
        /\ resolvedUsers' = o.resolvedUsers
        /\ newErrors' = o.newErrors
  /\ port' = [port EXCEPT ![w] = Tail(@)]
  /\ seen' = seen \o Head(port[w])
  /\ lastSeen' = noteResults(lastSeen, Head(port[w]))
  /\ UNCHANGED <<isRetryMode, exitCode, mpc, runs, prevLedger>>
  /\ UNCHANGED <<configVars, wActive, wQueue, tasks, batch, wpc, gets, posts, batchAnswer>>
  /\ UNCHANGED <<inputVars, retryVars, bufVars, limVars, diskVars>>

\* main, lines 405-440, the run's normal end: the streams are ended and the
\* process ends when they are done, so every line written reaches its file;
\* a retry run rewrites errors.txt.
CompleteRun ==
  /\ mpc' = "complete"
  /\ availFile' = availFile \o availStream
  /\ takenFile' = takenFile \o takenStream
  /\ errFile' = IF isRetryMode
                THEN finalErrors(errFile, resolvedUsers, newErrors)
                ELSE errFile \o errStream

\* process.exit() with writes of the streams under way: of each stream the
\* lines already handed to the file are in it, the later ones are lost.
ExitWithWritesUnderWay ==
  \E a \in 0..Len(availStream), t \in 0..Len(takenStream), e \in 0..Len(errStream) :
    /\ availFile' = availFile \o SubSeq(availStream, 1, a)
    /\ takenFile' = takenFile \o SubSeq(takenStream, 1, t)
    /\ errFile' = errFile \o SubSeq(errStream, 1, e)

\* process.exit() in main: the process and its workers are gone, and with
\* them what they held in memory.
ProcessGone ==
  /\ usernames' = <<>>
  /\ workers' = 0
  /\ concurrency' = 0
  /\ httpBatchSize' = 0
  /\ retries' = 0
  /\ wActive' = <<>>
  /\ wQueue' = <<>>
  /\ tasks' = <<>>
  /\ batch' = <<>>
  /\ port' = <<>>
  /\ wpc' = <<>>
  /\ gets' = <<>>
  /\ posts' = <<>>
  /\ batchAnswer' = <<>>
  /\ availStream' = <<>>
  /\ takenStream' = <<>>
  /\ errStream' = <<>>
  /\ resolvedUsers' = {}
  /\ newErrors' = <<>>
  /\ exitCode' = <<>>
  /\ seen' = <<>>

\* main, line 392: w.on('exit', code => code === 0 ? resolve() : ...), code 0.
\* The exit event follows the worker's messages. With the last worker's exit
\* Promise.all resolves and main runs to its end.
OnExitOk(w) ==
  /\ mpc = "running"
  /\ wpc[w] = "exit0"
  /\ Len(port[w]) = 0
  /\ exitCode[w] = "none"
  /\ exitCode' = [exitCode EXCEPT ![w] = "0"]
  /\ IF \A v \in WorkerIds : exitCode'[v] = "0"
     THEN CompleteRun
     ELSE UNCHANGED <<mpc, diskVars>>
  /\ UNCHANGED <<isRetryMode, availStream, takenStream, errStream,
                 resolvedUsers, newErrors>>
  /\ UNCHANGED <<inputVars, retryVars, bufVars, limVars, workerVars, histVars>>

\* an exit handler that resolves the worker's promise whatever the exit code
OnExitResolves(w) ==
  /\ mpc = "running"
  /\ wpc[w] = "exit1"
  /\ Len(port[w]) = 0
  /\ exitCode[w] = "none"
  /\ exitCode' = [exitCode EXCEPT ![w] = "0"]
  /\ IF \A v \in WorkerIds : exitCode'[v] = "0"
     THEN CompleteRun
     ELSE UNCHANGED <<mpc, diskVars>>
  /\ UNCHANGED <<isRetryMode, availStream, takenStream, errStream,
                 resolvedUsers, newErrors>>
  /\ UNCHANGED <<inputVars, retryVars, bufVars, limVars, workerVars, histVars>>

\* main, lines 392 and 471: a worker's exit with another code rejects
\* Promise.all; main().catch prints the cause and calls process.exit(1).
OnExitFault(w) ==
  /\ mpc = "running"
  /\ wpc[w] = "exit1"
  /\ Len(port[w]) = 0
  /\ exitCode[w] = "none"
  /\ mpc' = "fatal"
  /\ ExitWithWritesUnderWay
  /\ ProcessGone
  /\ UNCHANGED <<inputVars, retryVars, bufVars, limVars, isRetryMode, runs, prevLedger, lastSeen>>

Next ==
  \/ \E w \in WorkerIds : \E g \in DOMAIN tasks[w] : DelayElapsed(w, g)
  \/ \E w \in WorkerIds : \E g \in DOMAIN tasks[w] : \E answer \in GetAnswers :
       GetResponse(w, g, answer)
  \/ \E w \in WorkerIds : \E g \in DOMAIN tasks[w] : BackoffElapsed(w, g)
  \/ \E w \in WorkerIds : \E g \in DOMAIN tasks[w] :
       \E body \in ResultsBodies(Group(w, g)) : PostResults(w, g, body)
  \/ \E w \in WorkerIds : \E g \in DOMAIN tasks[w] :
       \E body \in MapBodies(Group(w, g)) : PostMap(w, g, body)
  \/ \E w \in WorkerIds : \E g \in DOMAIN tasks[w] : \E why \in PostRejections :
       PostRejected(w, g, why)
  \/ \E w \in WorkerIds : \E g \in DOMAIN tasks[w] :
       \E j \in 1..Len(Group(w, g)) : FallbackDelayElapsed(w, g, j)
  \/ \E w \in WorkerIds : \E g \in DOMAIN tasks[w] :
       \E j \in 1..Len(Group(w, g)) : \E answer \in GetAnswers :
         FallbackResponse(w, g, j, answer)
  \/ \E w \in WorkerIds : PoolClosed(w)
  \/ \E w \in WorkerIds : FaultExit(w)
  \/ \E w \in WorkerIds : OnMessage(w)
  \/ \E w \in WorkerIds : OnExitOk(w)
  \/ \E w \in WorkerIds : OnExitFault(w)

Spec == Init /\ [][Next]_vars

\* Every network call returns or times out, every timer fires and every
\* event is handled: a step that can be taken is taken in the end.
SpecLive == Spec /\ WF_vars(Next)

\* The state after main has spawned the workers of a retry run
\* (hytale-name --retry) on a ledger that holds a line for each key: the
\* sinks of Available and Taken are opened with flag 'a', errStream is null.
InitRetryMode ==
  /\ InitLimiterIdle
  /\ usernames \in {SubSeq(NameTable, 1, n) : n \in 1..MaxKeys}
  /\ workers \in 1..MaxWorkers
  /\ concurrency \in 1..MaxLimit
  /\ httpBatchSize \in 1..MaxBatch
  /\ retries \in 0..MaxRetries
  /\ wActive = [w \in WorkerIds |->
                  runStart(usernames, workers, concurrency, httpBatchSize, w).active]
  /\ wQueue = [w \in WorkerIds |->
                 runStart(usernames, workers, concurrency, httpBatchSize, w).queue]
  /\ tasks = [w \in WorkerIds |->
                runStart(usernames, workers, concurrency, httpBatchSize, w).tasks]
  /\ wpc = [w \in WorkerIds |->
              runStart(usernames, workers, concurrency, httpBatchSize, w).wpc]
  /\ batch = [w \in WorkerIds |-> <<>>]
  /\ port = [w \in WorkerIds |-> <<>>]
  /\ gets = [k \in RangeOf(usernames) |-> 0]
  /\ posts = [w \in WorkerIds |-> [g \in 1..Len(httpBatches(w)) |-> 0]]
  /\ batchAnswer = [w \in WorkerIds |-> [g \in 1..Len(httpBatches(w)) |-> "none"]]
  /\ isRetryMode = TRUE
  /\ availStream = <<>>
  /\ takenStream = <<>>
  /\ errStream = <<>>
  /\ resolvedUsers = {}
  /\ newErrors = <<>>
  /\ exitCode = [w \in WorkerIds |-> "none"]
  /\ mpc = "running"
  /\ availFile = <<>>
  /\ takenFile = <<>>
  /\ errFile = [i \in 1..Len(usernames) |-> Line(usernames[i], "Rate limited")]
  /\ runs = 1
  /\ prevLedger = errFile
  /\ seen = <<>>
  /\ lastSeen = [u \in Names |-> "none"]

SpecRetryMode == InitRetryMode /\ [][Next]_vars


(***************************************************************************)
(* Claims about one run of the engine                                      *)
(***************************************************************************)
\* the number of positions of seq whose element satisfies being in S
CountIn(seq, S) == Cardinality({i \in 1..Len(seq) : seq[i] \in S})

LinesOf(file, k) == Cardinality({i \in 1..Len(file) : file[i].key = k})

\* the results that the run has delivered for key k, by the sink they went to
DeliveredFor(k) ==
  CountIn(availFile, {k}) + CountIn(takenFile, {k}) + LinesOf(errFile, k)

\* C1: a run that completes normally has delivered exactly one CheckResult,
\* with one status among Available, Taken, Error, for each key of each
\* shard, and no result for a name that is in no shard; for every key list,
\* worker count, batch size and behaviour of the service.
C1_ExactlyOneResultPerKey ==
  mpc = "complete" =>
    /\ \A k \in RangeOf(usernames) : DeliveredFor(k) = 1
    /\ \A k \in Names \ RangeOf(usernames) : DeliveredFor(k) = 0

\* the batch answers with status 200/201 whose body is neither an array of
\* one {key, available} record per key nor a key-to-boolean map of the keys
MalformedBodies ==
  {"results, not one record per key", "object, unrelated fields",
   "map, keys missing", "200, no object"}

\* C4: when the batch endpoint answers the POST of a group of 2..B keys with
\* a malformed body, one single-key query is issued for every key of the
\* group, and every key of the group gets its CheckResult from it.
C4_MalformedBodyFallsBack ==
  \A w \in WorkerIds : \A g \in DOMAIN tasks[w] :
    (tasks[w][g].pc = "done" /\ batchAnswer[w][g] \in MalformedBodies)
      => \A j \in 1..Len(Group(w, g)) : gets[Group(w, g)[j]] >= 1

\* C5: with a retry limit of at least 1, a key is reported as Error with the
\* message of a retryable error (429, 5xx, timeout, connection failure) only
\* after its single-key query was attempted at least twice, in a group of
\* one key and in the single-key fallback of a larger group alike.
C5_RetryableErrorIsRetried ==
  retries >= 1 =>
    \A w \in WorkerIds : \A m \in 1..Len(port[w]) : \A n \in 1..Len(port[w][m]) :
      LET r == port[w][m][n]
      IN (r.username \in RangeOf(usernames) /\ OutcomeOf(r) = "error"
            /\ isRetryable(r.error))
           => gets[r.username] >= 2

\* the network calls of worker w that were issued and are not yet answered
InFlight(w) ==
  Cardinality({g \in DOMAIN tasks[w] : tasks[w][g].pc = "request"})
  + Cardinality({gj \in {<<g, j>> : g \in DOMAIN tasks[w], j \in 1..MaxBatch} :
                   /\ tasks[w][gj[1]].pc = "fallback"
                   /\ gj[2] \in DOMAIN tasks[w][gj[1]].fb
                   /\ tasks[w][gj[1]].fb[gj[2]].st = "request"})

DefaultConc == 200
\* worker.js, line 631: async function withRetry(fn, retries = 5)
DefaultRetries == 5

\* main, line 181: the keys of the lines of errors.txt, in the file's order
retryUsers(ledger) == [i \in 1..Len(ledger) |-> ledger[i].key]

\* main, line 284: [...new Set(lines)]: the first occurrence of each line
dedupe(list) ==
  LET F[i \in 0..Len(list)] ==
        IF i = 0 THEN <<>>
        ELSE IF list[i] \in RangeOf(F[i - 1]) THEN F[i - 1]
        ELSE Append(F[i - 1], list[i])
  IN F[Len(list)]

\* main, line 285: raw.filter(u => u.length >= MIN_LEN && u.length <= MAX_LEN)
filterLength(list) ==
  LET F[i \in 0..Len(list)] ==
        IF i = 0 THEN <<>>
        ELSE IF validLength(list[i]) THEN Append(F[i - 1], list[i])
        ELSE F[i - 1]
  IN F[Len(list)]

\* main, line 289: usernames.sort((a, b) => a.toLowerCase().localeCompare(
\* b.toLowerCase())): the keys in the alphabetical order of their lower-case
\* forms, which is the order of NameTable; the sort is stable, so keys that
\* differ by case only keep the order they had.
sortNames(list) ==
  LET F[i \in 0..Len(NameTable)] ==
        IF i = 0 THEN <<>>
        ELSE F[i - 1] \o SelectSeq(list, LAMBDA u : toLowerCase(u) = NameTable[i])
  IN F[Len(NameTable)]

\* main, lines 295-298: --start n skips the first min(n - 1, length) keys
skipStart(list, start) ==
  IF start > 1
  THEN SubSeq(list, Min(start - 1, Len(list)) + 1, Len(list))
  ELSE list

\* main, lines 283-298: the key list of a run, from the lines of its input
readUsernames(lines, start) ==
  skipStart(sortNames(filterLength(dedupe(lines))), start)

\* The input files of the model: the first n keys from the last to the
\* first, the first line once more as the third, and a name that is too
\* short as the second.
InputFile(n) ==
  [i \in 1..(n + 2) |->
     IF i = 1 THEN NameTable[n]
     ELSE IF i = 2 THEN Foreign
     ELSE NameTable[n + 3 - i]]

InputFiles == {InputFile(n) : n \in 1..MaxKeys}

\* What the service does with the single-key queries of the runs over the
\* directory: it answers with a value, or with 429 or 404.
LedgerAnswers == {"200 true", "200 false", "429", "404"}

\* The place of a name in the order of the names, Foreign after the keys.
NameRank(u) ==
  CHOOSE i \in 1..(Len(NameTable) + 1) :
    IF u = Foreign THEN i = Len(NameTable) + 1 ELSE NameTable[i] = u

\* The results arrays the batch endpoint sends in the runs over the
\* directory: of ResultsBodies the array of one element that is no object,
\* and the arrays of records with at most one record per name, in the order
\* of the names.
LedgerBodies(group) ==
  {body \in ResultsBodies(group) :
     \/ body = <<NullElement>>
     \/ /\ \A j \in 1..Len(body) : body[j] # NullElement
        /\ \A j \in 1..(Len(body) - 1) :
             NameRank(body[j].username) < NameRank(body[j + 1].username)}

\* What the task of a group ends with: the results that
\* withRetry(() => checkBatch(group)) gives to run(), lines 683-693. A group
\* of one key gets the value of checkSingle, or withRetry gives up with the
\* message of the last attempt; a larger group gets the results array of the
\* batch response, the results of its key-to-value map, or the results of
\* the fallback.
GroupOutcomes(group) ==
  IF Len(group) = 1
  THEN {LET c == checkSingle(a)
        IN IF c.threw THEN failedResults(group, c.message)
           ELSE <<Result(group[1], c.available, "")>> : a \in LedgerAnswers}
  ELSE LedgerBodies(group)
       \cup {mapResults(group, body) : body \in MapBodies(group)}
       \cup {[j \in 1..Len(group) |->
                fallbackResult(group[j], checkSingle(f[j]).available,
                               checkSingle(f[j]).message)] :
               f \in [1..Len(group) -> LedgerAnswers]}

\* no run is under way
NoRun == mpc \in {"idle", "complete", "fatal", "interrupted"}

\* main, lines 269-393, with the synchronous part of run() in every worker:
\* a run starts on the key list us. The sinks are opened with flag 'a' or
\* 'w' ('w' empties the file); a retry run opens no errStream.
BeginRun(us, retry, app, nw, size) ==
  /\ NoRun
  /\ runs < MaxRuns
  /\ Len(us) > 0
  /\ usernames' = us
  /\ workers' = nw
  /\ concurrency' = DefaultConc
  /\ httpBatchSize' = size
  /\ retries' = DefaultRetries
  /\ wActive' = [w \in 0..(nw - 1) |-> runStart(us, nw, DefaultConc, size, w).active]
  /\ wQueue' = [w \in 0..(nw - 1) |-> runStart(us, nw, DefaultConc, size, w).queue]
  /\ tasks' = [w \in 0..(nw - 1) |-> runStart(us, nw, DefaultConc, size, w).tasks]
  /\ wpc' = [w \in 0..(nw - 1) |-> runStart(us, nw, DefaultConc, size, w).wpc]
  /\ batch' = [w \in 0..(nw - 1) |-> <<>>]
  /\ port' = [w \in 0..(nw - 1) |-> <<>>]
  /\ gets' = [k \in RangeOf(us) |-> 0]
  /\ posts' = [w \in 0..(nw - 1) |-> [g \in 1..Len(batchesOf(us, nw, size, w)) |-> 0]]
  /\ batchAnswer' = [w \in 0..(nw - 1) |->
                       [g \in 1..Len(batchesOf(us, nw, size, w)) |-> "none"]]
  /\ isRetryMode' = retry
  /\ availStream' = <<>>
  /\ takenStream' = <<>>
  /\ errStream' = <<>>
  /\ resolvedUsers' = {}
  /\ newErrors' = <<>>
  /\ exitCode' = [w \in 0..(nw - 1) |-> "none"]
  /\ mpc' = "running"
  /\ availFile' = IF app THEN availFile ELSE <<>>
  /\ takenFile' = IF app THEN takenFile ELSE <<>>
  /\ errFile' = IF app THEN errFile ELSE <<>>
  /\ runs' = runs + 1
  /\ prevLedger' = errFile'
  /\ seen' = <<>>
  /\ UNCHANGED lastSeen
  /\ UNCHANGED <<inputVars, retryVars, bufVars, limVars>>

\* hytale-name <list> [--append] [--start n] [-w nw] [-b size]
StartNormalRun(lines, start, app, nw, size) ==
  /\ lines \in InputFiles
  /\ BeginRun(readUsernames(lines, start), FALSE, app, nw, size)

\* hytale-name --retry [--start n] [-w nw] [-b size]: the input is the keys
\* of errors.txt (lines 176-188); const append = args.append || isRetryMode
StartRetryRun(start, nw, size) ==
  /\ Len(retryUsers(errFile)) > 0
  /\ BeginRun(readUsernames(retryUsers(errFile), start), TRUE, TRUE, nw, size)

\* The task of group g of worker w runs to its end with the results rs.
GroupRuns(w, g, rs) ==
  /\ Alive(w)
  /\ tasks[w][g].pc = "delay"
  /\ TaskEnds(w, g, rs)
  /\ UNCHANGED <<configVars, gets, posts, batchAnswer>>
  /\ UNCHANGED <<inputVars, retryVars, bufVars, limVars, mainVars, diskVars, histVars>>

\* main, lines 395-403: process.on('SIGINT', ...): the streams are ended and
\* process.exit(0) is called; errors.txt is not rewritten.
Sigint ==
  /\ mpc = "running"
  /\ mpc' = "interrupted"
  /\ ExitWithWritesUnderWay
  /\ ProcessGone
  /\ UNCHANGED <<inputVars, retryVars, bufVars, limVars, isRetryMode, runs, prevLedger, lastSeen>>

\* An output directory that no run has written to.
InitLedger ==
  /\ InitLimiterIdle
  /\ InitWorkersIdle
  /\ isRetryMode = FALSE
  /\ availStream = <<>>
  /\ takenStream = <<>>
  /\ errStream = <<>>
  /\ resolvedUsers = {}
  /\ newErrors = <<>>
  /\ exitCode = <<>>
  /\ mpc = "idle"
  /\ availFile = <<>>
  /\ takenFile = <<>>
  /\ errFile = <<>>
  /\ runs = 0
  /\ prevLedger = <<>>
  /\ seen = <<>>
  /\ lastSeen = [u \in Names |-> "none"]

NextLedger ==
  \/ \E lines \in InputFiles : \E start \in 1..MaxKeys : \E app \in BOOLEAN :
       \E nw \in 1..MaxWorkers : \E size \in 1..MaxBatch :
         StartNormalRun(lines, start, app, nw, size)
  \/ \E start \in 1..MaxKeys : \E nw \in 1..MaxWorkers : \E size \in 1..MaxBatch :
       StartRetryRun(start, nw, size)
  \/ \E w \in WorkerIds : \E g \in DOMAIN tasks[w] :
       \E rs \in GroupOutcomes(Group(w, g)) : GroupRuns(w, g, rs)
  \/ \E w \in WorkerIds : PoolClosed(w)
  \/ \E w \in WorkerIds : FaultExit(w)
  \/ \E w \in WorkerIds : OnMessage(w)
  \/ \E w \in WorkerIds : OnExitOk(w)
  \/ \E w \in WorkerIds : OnExitFault(w)
  \/ Sigint

SpecLedger == InitLedger /\ [][NextLedger]_vars

(***************************************************************************)
(* One run in which workers may fault                                      *)
(***************************************************************************)
\* most keys of a run of SpecFault
FaultKeys == 3

\* A run in batches of MaxBatch keys, by one worker or more: of three keys
\* and two workers, worker 0 has one batch of two keys, which it checks by
\* POST, and worker 1 has one key.
InitFault ==
  /\ InitLimiterIdle
  /\ usernames \in {SubSeq(NameTable, 1, n) : n \in 2..FaultKeys}
  /\ workers \in 1..MaxWorkers
  /\ concurrency = DefaultConc
  /\ httpBatchSize = MaxBatch
  /\ retries = DefaultRetries
  /\ wActive = [w \in WorkerIds |->
                  runStart(usernames, workers, concurrency, httpBatchSize, w).active]
  /\ wQueue = [w \in WorkerIds |->
                 runStart(usernames, workers, concurrency, httpBatchSize, w).queue]
  /\ tasks = [w \in WorkerIds |->
                runStart(usernames, workers, concurrency, httpBatchSize, w).tasks]
  /\ wpc = [w \in WorkerIds |->
              runStart(usernames, workers, concurrency, httpBatchSize, w).wpc]
  /\ batch = [w \in WorkerIds |-> <<>>]
  /\ port = [w \in WorkerIds |-> <<>>]
  /\ gets = [k \in RangeOf(usernames) |-> 0]
  /\ posts = [w \in WorkerIds |-> [g \in 1..Len(httpBatches(w)) |-> 0]]
  /\ batchAnswer = [w \in WorkerIds |-> [g \in 1..Len(httpBatches(w)) |-> "none"]]
  /\ isRetryMode = FALSE
  /\ availStream = <<>>
  /\ takenStream = <<>>
  /\ errStream = <<>>
  /\ resolvedUsers = {}
  /\ newErrors = <<>>
  /\ exitCode = [w \in WorkerIds |-> "none"]
  /\ mpc = "running"
  /\ availFile = <<>>
  /\ takenFile = <<>>
  /\ errFile = <<>>
  /\ runs = 1
  /\ prevLedger = <<>>
  /\ seen = <<>>
  /\ lastSeen = [u \in RangeOf(usernames) \cup {Foreign} |-> "none"]

NextFault ==
  \/ \E w \in WorkerIds : \E g \in DOMAIN tasks[w] :
       \E rs \in GroupOutcomes(Group(w, g)) : GroupRuns(w, g, rs)
  \/ \E w \in WorkerIds : PoolClosed(w)
  \/ \E w \in WorkerIds : FaultExit(w)
  \/ \E w \in WorkerIds : OnMessage(w)
  \/ \E w \in WorkerIds : OnExitOk(w)
  \/ \E w \in WorkerIds : OnExitFault(w)

\* The events of a worker that has faulted are handled in the end: its
\* pool closes and it exits (line 701), main handles the messages it has
\* posted and then its exit event (lines 387-392).
FaultHandled(w) ==
  /\ w \in WorkerIds
  /\ FaultExit(w) \/ OnMessage(w) \/ OnExitFault(w)

SpecFault ==
  InitFault /\ [][NextFault]_vars
    /\ \A w \in 0..(MaxWorkers - 1) : WF_vars(FaultHandled(w))

(***************************************************************************)
(* Claims about the failure ledger                                         *)
(***************************************************************************)
KeysOf(file) == {file[i].key : i \in 1..Len(file)}

\* a retry run has completed normally: errors.txt has been rewritten
RetryDone == mpc = "complete" /\ isRetryMode

\* the names reported as Available or Taken in this run
ResolvedSeen ==
  {seen[i].username : i \in {j \in 1..Len(seen) : OutcomeOf(seen[j]) # "error"}}

\* the names reported as Error in this run
ErrorSeen ==
  {seen[i].username : i \in {j \in 1..Len(seen) : OutcomeOf(seen[j]) = "error"}}

\* the reason of the last Error reported for k in this run
LastReason(k) ==
  LET last == CHOOSE i \in 1..Len(seen) :
                /\ seen[i].username = k /\ OutcomeOf(seen[i]) = "error"
                /\ \A j \in (i + 1)..Len(seen) :
                     ~(seen[j].username = k /\ OutcomeOf(seen[j]) = "error")
  IN ReasonOf(seen[last])

\* the ledger is the previous lines of the keys neither resolved nor
\* reported as Error in this run, and one line for each key reported as
\* Error, with this run's reason
LedgerIsMerged ==
  /\ RangeOf(errFile) =
       {prevLedger[i] : i \in {j \in 1..Len(prevLedger) :
                                 prevLedger[j].key \notin ResolvedSeen \cup ErrorSeen}}
       \cup {Line(k, LastReason(k)) : k \in ErrorSeen}
  /\ \A k \in ErrorSeen : LinesOf(errFile, k) = 1

\* the previous lines of the keys that were not in this run's input (too
\* short or too long, or skipped by --start) are in the ledger
UnqueriedLinesKept ==
  \A i \in 1..Len(prevLedger) :
    prevLedger[i].key \notin RangeOf(usernames)
      => /\ prevLedger[i] \in RangeOf(errFile)
         /\ LinesOf(errFile, prevLedger[i].key) = LinesOf(prevLedger, prevLedger[i].key)

\* C7: at the end of a retry run that completes normally the ledger written
\* is the previous entries whose key was neither resolved nor reported as
\* Error in this run, with their previous reason, and one entry for each key
\* reported as Error in this run, with this run's reason; in particular the
\* entries whose key was not part of this run's input are kept unchanged.
C7_LedgerMergeRule == RetryDone => (LedgerIsMerged /\ UnqueriedLinesKept)

\* a retry run in which no ledger key resolved: no key of the ledger was
\* reported as Available or Taken and every retried key was reported as Error
NoKeyResolved ==
  /\ RetryDone
  /\ KeysOf(prevLedger) \cap ResolvedSeen = {}
  /\ RangeOf(usernames) \subseteq ErrorSeen

\* C8 as stated: a retry run in which no ledger key resolves rewrites a
\* ledger equal to the original as a set of key<TAB>reason lines.
C8_RetryReproducesLedger ==
  NoKeyResolved => RangeOf(errFile) = RangeOf(prevLedger)

\* C8: a retry run in which no ledger key resolves rewrites a ledger whose
\* keys are the keys of the original and the names reported as Error in the
\* run; the lines of the keys not reported in the run are the original
\* ones, and each name reported as Error has exactly one line, with this
\* run's reason.
C8_RetryKeepsKeys ==
  NoKeyResolved =>
    /\ KeysOf(errFile) = KeysOf(prevLedger) \cup ErrorSeen
    /\ \A k \in KeysOf(prevLedger) \ ErrorSeen :
         /\ LinesOf(errFile, k) = LinesOf(prevLedger, k)
         /\ \A i \in 1..Len(prevLedger) :
              prevLedger[i].key = k => prevLedger[i] \in RangeOf(errFile)
    /\ \A k \in ErrorSeen :
         /\ LinesOf(errFile, k) = 1
         /\ Line(k, LastReason(k)) \in RangeOf(errFile)

\* C8 witness: a retry run in which no ledger key resolved has rewritten the
\* ledger, a retried key has failed for another reason than before, and a
\* key that was skipped has kept its line.
C8_Witness ==
  /\ NoKeyResolved
  /\ \E k \in RangeOf(usernames) :
       /\ k \in KeysOf(prevLedger)
       /\ Line(k, LastReason(k)) \notin RangeOf(prevLedger)
  /\ \E k \in KeysOf(prevLedger) : k \notin ErrorSeen /\ validLength(k)

\* C9: if in a retry run every key of the ledger is reported as Available
\* or Taken, the ledger rewritten at the end of the run is empty.
C9_AllResolvedEmptiesLedger ==
  (RetryDone /\ KeysOf(prevLedger) \subseteq ResolvedSeen) => Len(errFile) = 0

\* C10: after any sequence of runs over the directory (normal runs in
\* overwrite or append mode, retry runs, runs ended by an interrupt or by a
\* worker fault) no key is in errors.txt whose most recent observed outcome
\* was Available or Taken.
C10_LedgerKeysNotResolvedLast ==
  NoRun => \A i \in 1..Len(errFile) :
             lastSeen[errFile[i].key] \notin {"available", "taken"}

(***************************************************************************)
(* Claims about the ways a run ends                                        *)
(***************************************************************************)
\* the lines of the merge rule, from the ledger the run has found and the
\* results main has handled so far
MergedLines ==
  {prevLedger[i] : i \in {j \in 1..Len(prevLedger) :
                            prevLedger[j].key \notin ResolvedSeen \cup ErrorSeen}}
  \cup {Line(k, LastReason(k)) : k \in ErrorSeen}

\* a step that ends a retry run: by its normal end, by an interrupt, or by
\* the exit of a worker with a fault
RetryRunEnds == mpc = "running" /\ isRetryMode /\ mpc' # "running"

\* C11: every retry run that has started its workers writes a new ledger at
\* its end, however the run ends: after the normal end, after an interrupt
\* and after a worker fault the ledger on disk is the one the merge rule
\* gives for the results received so far.
C11_RetryAlwaysRewritesLedger ==
  [][RetryRunEnds => RangeOf(errFile') = MergedLines]_vars

(***************************************************************************)
(* main, from the input file to the spawning of the workers                *)
(***************************************************************************)
\* longest input file of SpecInput, in lines
MaxLines == 3
\* largest --workers of SpecInput
MaxShards == 3

\* the lines an input file may hold: keys, two of them equal up to case, and
\* a name that is too short
InputNames == {"Apple", "apple", "banana", "cherry", Foreign}

\* the values of --from: none, a key in lower case, a key in upper case, and
\* a name that is in no file
FromArgs == {"", "apple", "BANANA", "ghost"}

\* main, line 296: skipped = Math.min(args.start - 1, usernames.length)
skippedByStart(list, start) ==
  IF start > 1 THEN Min(start - 1, Len(list)) ELSE 0

\* main, line 302: usernames.findIndex(u => u.toLowerCase() ===
\* args.from.toLowerCase()): the 0-based index of the first match, or -1
findIndex(list, from) ==
  IF \E i \in 1..Len(list) : toLowerCase(list[i]) = toLowerCase(from)
  THEN (CHOOSE i \in 1..Len(list) :
          /\ toLowerCase(list[i]) = toLowerCase(from)
          /\ \A j \in 1..(i - 1) : toLowerCase(list[j]) # toLowerCase(from)) - 1
  ELSE -1

\* a --from that treats a key it has not found as found
notFoundIgnored(idx) == FALSE

\* main, line 303: if (idx === -1) { ...; process.exit(1); }
notFound(idx) == idx = -1

\* list.slice(idx): from the 0-based index idx on, a negative idx counted
\* from the end
slice(list, idx) ==
  IF idx >= 0 THEN SubSeq(list, idx + 1, Len(list))
  ELSE SubSeq(list, (IF Len(list) + idx > 0 THEN Len(list) + idx ELSE 0) + 1, Len(list))

\* the output directory SpecInput starts in: the files of an earlier run
EarlierAvail == <<"banana">>
EarlierTaken == <<"cherry">>
EarlierErr == <<Line("apple", "Rate limited")>>

\* main is started on an input file, with --start, --from, --append and
\* --workers, in a directory that an earlier run has written to.
InitInput ==
  /\ InitRetryIdle
  /\ InitBufferIdle
  /\ max = 0
  /\ active = 0
  /\ queue = <<>>
  /\ taskState = <<>>
  /\ settledAs = <<>>
  /\ startOrder = <<>>
  /\ startedBy = <<>>
  /\ content \in UNION {[1..n -> InputNames] : n \in 1..MaxLines}
  /\ argStart \in 0..MaxLines
  /\ argFrom \in FromArgs
  /\ argAppend \in BOOLEAN
  /\ skipped = 0
  /\ shards = <<>>
  /\ sinksOpen = FALSE
  /\ usernames = <<>>
  /\ workers \in 1..MaxShards
  /\ concurrency = DefaultConc
  /\ httpBatchSize = 1
  /\ retries = DefaultRetries
  /\ wActive = <<>>
  /\ wQueue = <<>>
  /\ tasks = <<>>
  /\ batch = <<>>
  /\ port = <<>>
  /\ wpc = <<>>
  /\ gets = <<>>
  /\ posts = <<>>
  /\ batchAnswer = <<>>
  /\ isRetryMode = FALSE
  /\ availStream = <<>>
  /\ takenStream = <<>>
  /\ errStream = <<>>
  /\ resolvedUsers = {}
  /\ newErrors = <<>>
  /\ exitCode = <<>>
  /\ mpc = "start"
  /\ availFile = EarlierAvail
  /\ takenFile = EarlierTaken
  /\ errFile = EarlierErr
  /\ runs = 0
  /\ prevLedger = <<>>
  /\ seen = <<>>
  /\ lastSeen = <<>>

\* what the steps of main before the workers leave alone
inputRest ==
  <<retryVars, bufVars, limVars, content, argStart, argFrom, argAppend, workers,
    concurrency, httpBatchSize, retries, wActive, wQueue, tasks, batch, port,
    gets, posts, batchAnswer, isRetryMode, availStream, takenStream, errStream,
    resolvedUsers, newErrors, exitCode, histVars>>

\* main, lines 283-289: the input is read, deduplicated, filtered, sorted
ReadInput ==
  /\ mpc = "start"
  /\ usernames' = sortNames(filterLength(dedupe(content)))
  /\ mpc' = "read"
  /\ UNCHANGED <<inputRest, skipped, shards, sinksOpen, wpc, diskVars>>

\* main, lines 295-298: --start
ResumeByStart ==
  /\ mpc = "read"
  /\ usernames' = skipStart(usernames, argStart)
  /\ skipped' = skippedByStart(usernames, argStart)
  /\ mpc' = "offset"
  /\ UNCHANGED <<inputRest, shards, sinksOpen, wpc, diskVars>>

\* main, lines 301-309: --from: the run goes on from the key found, or ends
\* with process.exit(1)
ResumeByFrom ==
  /\ mpc = "offset"
  /\ IF argFrom = ""
     THEN /\ mpc' = "resumed"
          /\ UNCHANGED <<usernames, skipped>>
     ELSE LET idx == findIndex(usernames, argFrom)
          IN IF notFound(idx)
             THEN /\ mpc' = "fatal"
                  /\ UNCHANGED <<usernames, skipped>>
             ELSE /\ mpc' = "resumed"
                  /\ skipped' = skipped + idx
                  /\ usernames' = slice(usernames, idx)
  /\ UNCHANGED <<inputRest, shards, sinksOpen, wpc, diskVars>>

\* main, lines 311-335: no key is left: process.exit(1); else the shards
ShardKeys ==
  /\ mpc = "resumed"
  /\ IF Len(usernames) = 0
     THEN /\ mpc' = "fatal"
          /\ UNCHANGED shards
     ELSE /\ mpc' = "sharded"
          /\ shards' = shardArray(usernames, workers)
  /\ UNCHANGED <<inputRest, usernames, skipped, sinksOpen, wpc, diskVars>>

\* main, lines 338-347: the write streams are created, with flag 'a' or 'w'
OpenSinks ==
  /\ mpc = "sharded"
  /\ sinksOpen' = TRUE
  /\ availFile' = IF argAppend THEN availFile ELSE <<>>
  /\ takenFile' = IF argAppend THEN takenFile ELSE <<>>
  /\ errFile' = IF argAppend THEN errFile ELSE <<>>
  /\ mpc' = "sinks"
  /\ UNCHANGED <<inputRest, usernames, skipped, shards, wpc>>

\* main, lines 385-393: one Worker per shard
SpawnWorkers ==
  /\ mpc = "sinks"
  /\ wpc' = [w \in WorkerIds |-> "spawned"]
  /\ mpc' = "running"
  /\ UNCHANGED <<inputRest, usernames, skipped, shards, sinksOpen, diskVars>>

NextInput ==
  \/ ReadInput
  \/ ResumeByStart
  \/ ResumeByFrom
  \/ ShardKeys
  \/ OpenSinks
  \/ SpawnWorkers

SpecInput == InitInput /\ [][NextInput]_vars

(***************************************************************************)
(* Claims about the input of a run                                         *)
(***************************************************************************)
\* the shards have been made from the keys of the run
Sharded == mpc \in {"sharded", "sinks", "running"}

\* the shards that hold key u
ShardsOf(u) == {s \in DOMAIN shards : u \in RangeOf(shards[s])}

\* the position of key u in the sorted list of the run
PositionOf(u) == CHOOSE i \in 1..Len(usernames) : usernames[i] = u

\* the sum of the lengths of the shards
ShardTotal ==
  LET F[s \in -1..(workers - 1)] ==
        IF s = -1 THEN 0 ELSE F[s - 1] + Len(shards[s])
  IN F[workers - 1]

\* C12: shardArray(keys, n) puts the key at 0-based position i of the sorted
\* list in shard i mod n, at position i div n of that shard, and nowhere
\* else: every key is in exactly one shard, the shards together hold as many
\* keys as the list, and inside a shard the keys are in the order of the list.
C12_ShardingIsRoundRobin ==
  Sharded =>
    /\ DOMAIN shards = 0..(workers - 1)
    /\ \A i \in 1..Len(usernames) :
         /\ ((i - 1) \div workers) + 1 \in DOMAIN shards[(i - 1) % workers]
         /\ shards[(i - 1) % workers][((i - 1) \div workers) + 1] = usernames[i]
         /\ Cardinality(ShardsOf(usernames[i])) = 1
    /\ ShardTotal = Len(usernames)
    /\ \A s \in DOMAIN shards : \A p, q \in 1..Len(shards[s]) :
         p < q => PositionOf(shards[s][p]) < PositionOf(shards[s][q])

\* three keys have been dealt to two workers
C12_Witness ==
  /\ Sharded
  /\ workers = 2
  /\ Len(usernames) = 3
  /\ Len(shards[0]) = 2
  /\ Len(shards[1]) = 1

\* the list --start p leaves of the sorted list, and the count it skips
byOffset(list, p) ==
  [rest |-> skipStart(list, p), skipped |-> skippedByStart(list, p)]

\* the list --from k leaves of the sorted list, and the count it skips
byKey(list, k) ==
  [rest |-> slice(list, findIndex(list, k)), skipped |-> findIndex(list, k)]

\* C13: for the sorted, deduplicated list of a run and every key k of it,
\* resuming by offset at the position of k and resuming by key match on k
\* leave the same list of keys and skip the same number of keys.
C13_OffsetAndKeyResumeAgree ==
  mpc = "read" =>
    \A p \in 1..Len(usernames) :
      byOffset(usernames, p) = byKey(usernames, usernames[p])

\* --from has been handled and its target matches no key of the list, up to
\* case (after a match the list starts with the key that matched)
FromMissed ==
  /\ argFrom # ""
  /\ mpc \notin {"start", "read", "offset"}
  /\ notFound(findIndex(usernames, argFrom))

\* C14: when the target of --from matches no key of the list, up to case,
\* the run has ended with exit code 1 and no worker has been spawned, no
\* request has been issued, and no output file has been opened or written.
C14_MissedFromAbortsBeforeWork ==
  (argFrom # "" /\ mpc \notin {"start", "read", "offset"}
     /\ findIndex(usernames, argFrom) = -1) =>
    /\ mpc = "fatal"
    /\ ~sinksOpen
    /\ wpc = <<>>
    /\ gets = <<>> /\ posts = <<>>
    /\ shards = <<>>
    /\ availFile = EarlierAvail /\ takenFile = EarlierTaken /\ errFile = EarlierErr

\* --from ghost on a list of keys that holds no ghost: the run has ended
C14_Witness ==
  /\ FromMissed
  /\ argFrom = "ghost"
  /\ Len(usernames) >= 2
  /\ ~argAppend
  /\ mpc = "fatal"

\* the SIGINT handler has run and the process has exited
Interrupted == mpc = "running" /\ mpc' = "interrupted"

\* C15: on an interrupt at any point of a run, every result line written to
\* a sink before the interrupt is in the file of that sink when the process
\* has exited.
C15_InterruptFlushesSinks ==
  [][Interrupted =>
       /\ availFile' = availFile \o availStream
       /\ takenFile' = takenFile \o takenStream
       /\ errFile' = errFile \o errStream]_vars

\* a worker of the run has ended with a fault: run() has rejected, or the
\* worker has exited with code 1
WorkerFault == \E w \in DOMAIN wpc : wpc[w] \in {"faulted", "exit1"}

\* C16: when a worker ends with a fault the run is aborted with exit code 1,
\* whatever the state of the other workers, and a run that reports normal
\* completion has seen every worker exit with code 0.
C16_WorkerFaultAbortsRun ==
  /\ WorkerFault ~> mpc = "fatal"
  /\ [](mpc = "complete" => \A w \in DOMAIN wpc : wpc[w] = "exit0")
  /\ [][WorkerFault => mpc' # "complete"]_vars

\* one of two workers has exited with code 1 while the other has all its
\* results delivered and has exited with code 0
C16_Witness ==
  /\ mpc = "running"
  /\ workers = 2
  /\ wpc[0] = "exit1"
  /\ wpc[1] = "exit0"
  /\ exitCode[1] = "0"

(***************************************************************************)
(* withRetry: one call, of an fn that is a single-key query                *)
(***************************************************************************)
\* the answers a GET may get in SpecRetry
RetryAnswers == GetAnswers \cup {"403"}

\* Math.random() * 500, line 647: a value of [0, 500); the least, a middle
\* and the greatest whole value stand for the interval
JitterSpan == 500
Jitters == {0, JitterSpan \div 2, JitterSpan - 1}

\* a base delay that is the same for every retryable error
baseDelayFlat(message) == 300

\* const baseDelay = isRateLimit ? 1000 : 300
baseDelay(message) == IF isRateLimit(message) THEN 1000 ELSE 300

\* const delay = baseDelay * Math.pow(2, i) + Math.random() * 500
backoffDelay(message, i, jitter) == baseDelay(message) * (2 ^ i) + jitter

\* a loop that does not count its attempts
sameAttempt(i) == i

\* for (...; i++)
nextAttempt(i) == i + 1

\* for (...; i <= retries; ...)
loopContinues(i, limit) == i <= limit

\* {ok: true, val} and {ok: false, err}
okResult(val) == [ok |-> TRUE, val |-> val, err |-> ""]
failResult(message) == [ok |-> FALSE, val |-> "none", err |-> message]

\* withRetry(fn, retries) has been called and is about to invoke fn for the
\* first time; retries is 5 where the worker calls it (line 680).
InitRetry ==
  /\ InitInputIdle
  /\ InitBufferIdle
  /\ InitWorkersIdle
  /\ InitMainIdle
  /\ max = 0
  /\ active = 0
  /\ queue = <<>>
  /\ taskState = <<>>
  /\ settledAs = <<>>
  /\ startOrder = <<>>
  /\ startedBy = <<>>
  /\ rLimit \in 0..DefaultRetries
  /\ rI = 0
  /\ rErr = ""
  /\ rPos = "attempt"
  /\ rResult = [ok |-> FALSE, val |-> "none", err |-> ""]
  /\ rCalls = 0
  /\ rLast = "none"
  /\ rDelay = 0

\* withRetry, lines 634-648: fn is invoked and the query gets its answer. A
\* value is returned as {ok: true, val}; an error is kept in err, and either
\* returned as {ok: false, err: e.message} or followed by the backoff delay.
RetryAttempt(answer, jitter) ==
  /\ rPos = "attempt"
  /\ rCalls' = rCalls + 1
  /\ rLast' = answer
  /\ LET c == checkSingle(answer)
     IN IF ~c.threw
        THEN /\ rResult' = okResult(c.available)
             /\ rPos' = "returned"
             /\ UNCHANGED <<rErr, rDelay>>
        ELSE /\ rErr' = c.message
             /\ IF withRetryGivesUp(c.message, rI, rLimit)
                THEN /\ rResult' = failResult(c.message)
                     /\ rPos' = "returned"
                     /\ UNCHANGED rDelay
                ELSE /\ rDelay' = backoffDelay(c.message, rI, jitter)
                     /\ rPos' = "backoff"
                     /\ UNCHANGED rResult
  /\ UNCHANGED <<rLimit, rI>>
  /\ UNCHANGED <<inputVars, bufVars, limVars, workerVars, mainVars, diskVars, histVars>>

\* withRetry, lines 633, 648 and 651: the delay is over, i++; the loop goes
\* on with the next attempt, or ends and {ok: false, err: err?.message ||
\* 'Max retries'} is returned.
RetryDelayElapsed ==
  /\ rPos = "backoff"
  /\ rI' = nextAttempt(rI)
  /\ IF loopContinues(rI', rLimit)
     THEN /\ rPos' = "attempt"
          /\ UNCHANGED rResult
     ELSE /\ rPos' = "returned"
          /\ rResult' = failResult(IF rErr # "" THEN rErr ELSE "Max retries")
  /\ UNCHANGED <<rLimit, rErr, rCalls, rLast, rDelay>>
  /\ UNCHANGED <<inputVars, bufVars, limVars, workerVars, mainVars, diskVars, histVars>>

NextRetry ==
  \/ \E answer \in RetryAnswers : \E jitter \in Jitters : RetryAttempt(answer, jitter)
  \/ RetryDelayElapsed

SpecRetry == InitRetry /\ [][NextRetry]_vars

(***************************************************************************)
(* Claims about withRetry                                                  *)
(***************************************************************************)
\* withRetry has returned
Returned == rPos = "returned"

\* C17: withRetry(fn, R) invokes fn at most R + 1 times; when R + 1 attempts
\* have failed it has returned a failed outcome whose description is the
\* message of the last attempt's error; every attempt ends in a returned
\* outcome or in the backoff delay, never in an error thrown by withRetry.
C17_AtMostRPlusOneAttempts ==
  /\ rCalls <= rLimit + 1
  /\ rPos \in {"attempt", "backoff", "returned"}
  /\ (rCalls = rLimit + 1 /\ checkSingle(rLast).threw) =>
       /\ Returned
       /\ rResult = failResult(checkSingle(rLast).message)

\* all R + 1 attempts of a call with R = 2 have failed with retryable
\* errors, the last with another error than the one before
C17_Witness ==
  /\ Returned
  /\ rLimit = 2
  /\ rCalls = 3
  /\ rLast = "500"
  /\ rResult = failResult("Server error (500)")
  /\ rDelay >= 2000

\* the messages of the errors of a single-key query that are in no
\* retryable class
FatalMessages ==
  {checkSingle(a).message : a \in {b \in RetryAnswers :
     checkSingle(b).threw /\ ~isRateLimit(checkSingle(b).message)
       /\ MatchesIn(checkSingle(b).message) = {}}}

\* the step is an attempt of fn that fails with a message of the set
AttemptFailsWith(messages) ==
  /\ rPos = "attempt"
  /\ rCalls' = rCalls + 1
  /\ checkSingle(rLast').threw
  /\ checkSingle(rLast').message \in messages

\* C18: an attempt that fails with an error outside the retryable classes
\* (rate limit, 5xx, timeout, connection-level failure), such as an invalid
\* response body, makes withRetry return the failed outcome with that
\* error's message at once: no backoff delay is set and no attempt follows.
C18_FatalErrorIsTerminal ==
  [][AttemptFailsWith(FatalMessages) =>
       /\ rPos' = "returned"
       /\ rResult' = failResult(checkSingle(rLast').message)
       /\ rDelay' = rDelay
       /\ rI' = rI]_vars

\* the first attempt of a call with R = 5 has failed with an invalid
\* response body and withRetry has returned
C18_Witness ==
  /\ Returned
  /\ rLimit = DefaultRetries
  /\ rCalls = 1
  /\ rLast = "200 invalid"
  /\ rResult = failResult("Invalid response")
  /\ rDelay = 0

\* the answers with a non-2xx status other than 429 and 5xx
GenericHttp == {"403", "404"}

\* C19 as stated: a single-key query answered with a non-2xx status other
\* than 429 and 5xx is attempted again when R >= 1, before the key is
\* reported as Error.
C19_GenericHttpIsRetried ==
  (rLimit >= 1 /\ rCalls = 1 /\ rLast \in GenericHttp) => ~Returned

\* C19, amended: a single-key query answered with a non-2xx status other
\* than 429 and 5xx fails with the message HTTP <status>, which is in no
\* retryable class: whatever R, withRetry has returned the failed outcome
\* with that message after that attempt and nothing is attempted again.
C19_GenericHttpIsTerminal ==
  (rCalls >= 1 /\ rLast \in GenericHttp) =>
    /\ Returned
    /\ rResult = failResult(checkSingle(rLast).message)
    /\ checkSingle(rLast).message \in {"HTTP 403", "HTTP 404"}

\* a call with R = 5 whose second attempt, after a rate limit, was answered
\* with status 403: withRetry has returned after two attempts
C19_Witness ==
  /\ Returned
  /\ rLimit = DefaultRetries
  /\ rCalls = 2
  /\ rLast = "403"
  /\ rResult = failResult("HTTP 403")

\* the messages of the retryable errors that are no rate limit
OtherRetryable ==
  {checkSingle(a).message : a \in {b \in RetryAnswers :
     checkSingle(b).threw /\ isRetryable(checkSingle(b).message)
       /\ ~isRateLimit(checkSingle(b).message)}}

\* C20: the backoff delay that withRetry waits after a rate-limit error is
\* greater than the delay after any other retryable error in the same
\* attempt i, whatever the two jitter values.
C20_RateLimitWaitsLonger ==
  (rPos = "backoff" /\ isRateLimit(rErr)) =>
    \A other \in OtherRetryable : \A jitter \in Jitters :
      rDelay > backoffDelay(other, rI, jitter)

\* withRetry waits after a rate limit in the first attempt with the least
\* jitter, and after one in the fourth attempt
C20_Witness ==
  /\ rPos = "backoff"
  /\ isRateLimit(rErr)
  /\ OtherRetryable # {}
  /\ \/ rI = 0 /\ rDelay = 1000
     \/ rI = 3 /\ rDelay = 8000 + JitterSpan - 1

(***************************************************************************)
(* Claims about the results on their way from the workers to the sinks     *)
(***************************************************************************)
\* the results main has consumed for name k with outcome oc
SeenAs(k, oc) ==
  Cardinality({i \in 1..Len(seen) : seen[i].username = k /\ OutcomeOf(seen[i]) = oc})

\* the lines of the ledger before the run that the rewrite of a retry run
\* keeps for name k: those of a name with no result in the run
KeptLines(k) ==
  IF k \in ResolvedSeen \cup ErrorSeen THEN 0 ELSE LinesOf(prevLedger, k)

\* each result consumed so far has its line in the sink of its outcome, and
\* in no other sink; kept is the number of lines of the Error sink that are
\* no lines of results
OneLinePerResult(avail, taken, errors, kept(_)) ==
  \A k \in Names :
    /\ CountIn(avail, {k}) = SeenAs(k, "available")
    /\ CountIn(taken, {k}) = SeenAs(k, "taken")
    /\ LinesOf(errors, k) = SeenAs(k, "error") + kept(k)

\* a step that changes the port of worker w is a post of the worker, which
\* adds messages at the end, or main's handling of the oldest message of w,
\* whose results, and no others, become consumed
PostOrConsume(w) ==
  \/ /\ Len(port'[w]) > Len(port[w])
     /\ SubSeq(port'[w], 1, Len(port[w])) = port[w]
     /\ seen' = seen
  \/ /\ Len(port[w]) > 0
     /\ port'[w] = Tail(port[w])
     /\ seen' = seen \o Head(port[w])
     /\ \A v \in DOMAIN port \ {w} : port'[v] = port[v]

\* no line of the Error sink is kept from before the run
NoneKept(k) == 0

\* C21: every result a worker has posted is consumed by main exactly once,
\* one message at a time, and before the sinks are closed at the normal end
\* of the run; each consumed result has one whole line in exactly one sink
\* (in a retry run the Error sink is the ledger written at the end).
C21_ResultsConsumedOnceInOrder ==
  /\ []((mpc = "running" /\ ~isRetryMode) =>
          OneLinePerResult(availStream, takenStream, errStream, NoneKept))
  /\ [](mpc = "complete" =>
          /\ \A w \in DOMAIN port : port[w] = <<>>
          /\ OneLinePerResult(availFile, takenFile, errFile, KeptLines))
  /\ [][\A w \in DOMAIN port \cap DOMAIN port' :
          port'[w] # port[w] => PostOrConsume(w)]_vars

(***************************************************************************)
(* The result buffer of a worker, for every size of the buffer             *)
(***************************************************************************)
\* largest BATCH of SpecBuffer
MaxBuffer == 3
\* most results pushed in SpecBuffer
MaxPushes == 3

\* function push(username, available, ttc, error = null) for a BATCH of size
pushSized(b, p, r, size) ==
  LET b2 == Append(b, r)
  IN IF Len(b2) >= size THEN flush(b2, p) ELSE <<b2, p>>

\* the results a task may push in SpecBuffer
BufferResults == {Result(NameTable[1], a, "") : a \in {"true", "false", "null"}}

\* A worker has started run() with BATCH = verbose ? 1 : batchSize.
InitBuffer ==
  /\ InitInputIdle
  /\ InitRetryIdle
  /\ InitWorkersIdle
  /\ InitMainIdle
  /\ max = 0
  /\ active = 0
  /\ queue = <<>>
  /\ taskState = <<>>
  /\ settledAs = <<>>
  /\ startOrder = <<>>
  /\ startedBy = <<>>
  /\ bSize \in 1..MaxBuffer
  /\ bBatch = <<>>
  /\ bPort = <<>>
  /\ bPos = "running"
  /\ bPushed = <<>>

bufRest == <<inputVars, retryVars, limVars, workerVars, mainVars, diskVars, histVars>>

\* run(), lines 685-692: a task pushes a result; the tasks that are under
\* way when another task has thrown go on until the worker exits
BufPush(r) ==
  /\ bPos \in {"running", "faulted"}
  /\ Len(bPushed) < MaxPushes
  /\ bBatch' = pushSized(bBatch, bPort, r, bSize)[1]
  /\ bPort' = pushSized(bBatch, bPort, r, bSize)[2]
  /\ bPushed' = Append(bPushed, r)
  /\ UNCHANGED <<bSize, bPos, bufRest>>

\* run(), lines 678-694: a task throws, Promise.all and run() reject; lines
\* 696-698 are not reached
BufTaskThrows ==
  /\ bPos = "running"
  /\ bPos' = "faulted"
  /\ UNCHANGED <<bSize, bBatch, bPort, bPushed, bufRest>>

\* line 701: run().catch(() => { pool.close().finally(() => process.exit(1)) })
BufFaultExit ==
  /\ bPos = "faulted"
  /\ bPos' = "exit1"
  /\ UNCHANGED <<bSize, bBatch, bPort, bPushed, bufRest>>

\* run(), lines 694-697: every task has returned: flush(), then pool.close()
BufShardDone ==
  /\ bPos = "running"
  /\ bBatch' = flush(bBatch, bPort)[1]
  /\ bPort' = flush(bBatch, bPort)[2]
  /\ bPos' = "closing"
  /\ UNCHANGED <<bSize, bPushed, bufRest>>

\* run(), line 698: process.exit(0)
BufPoolClosed ==
  /\ bPos = "closing"
  /\ bPos' = "exit0"
  /\ UNCHANGED <<bSize, bBatch, bPort, bPushed, bufRest>>

NextBuffer ==
  \/ \E r \in BufferResults : BufPush(r)
  \/ BufTaskThrows
  \/ BufFaultExit
  \/ BufShardDone
  \/ BufPoolClosed

SpecBuffer == InitBuffer /\ [][NextBuffer]_vars

\* the results of the messages posted, in their order
RECURSIVE Flattened(_)
Flattened(p) == IF Len(p) = 0 THEN <<>> ELSE Head(p) \o Flattened(Tail(p))

\* the worker has exited
BufExited == bPos \in {"exit0", "exit1"}

KeysSeen == {seen[i].username : i \in 1..Len(seen)}

\* every worker has signalled completion (exit with code 0, after which main
\* ends the run) and has emitted an outcome for every key of its shard
EveryShardDone ==
  /\ mpc = "complete"
  /\ \A w \in WorkerIds : wpc[w] = "exit0"
  /\ RangeOf(usernames) \subseteq KeysSeen

\* C23: provided every network call returns or times out, every worker in
\* the end emits an outcome for every key of its shard and signals
\* completion, whatever the batch endpoint and the single-key endpoint
\* answer, for every concurrency of at least 1 and every retry limit.
C23_EveryKeyGetsOutcome == <>EveryShardDone

(***************************************************************************)
(* Claims about the calls of checkBatch                                    *)
(***************************************************************************)
\* the invocations of checkBatch for group g of worker w that have issued
\* their first request: withRetry has invoked checkBatch i + 1 times, and the
\* last invocation may still wait for its delay
Issued(w, g) ==
  IF tasks[w][g].pc \in {"queued", "delay"} THEN tasks[w][g].i ELSE tasks[w][g].i + 1

\* the batch call of group g of worker w has failed or was rejected
BatchCallFailed(w, g) == batchAnswer[w][g] \in PostRejections

\* C24: for a group of one key checkBatch issues single-key queries only,
\* one per invocation, and never a batch call; for a group of two or more
\* keys each invocation issues exactly one batch call, and single-key
\* queries, at most one per key, only after that batch call has failed or
\* was rejected.
C24_BatchCallBeforeSingles ==
  mpc = "running" =>
    \A w \in WorkerIds : \A g \in DOMAIN tasks[w] :
      IF Len(Group(w, g)) = 1
      THEN /\ posts[w][g] = 0
           /\ gets[Group(w, g)[1]] = Issued(w, g)
      ELSE /\ posts[w][g] = Issued(w, g)
           /\ posts[w][g] <= 1
           /\ \A j \in 1..Len(Group(w, g)) :
                /\ gets[Group(w, g)[j]] <= 1
                /\ gets[Group(w, g)[j]] = 1 =>
                     /\ posts[w][g] = 1
                     /\ BatchCallFailed(w, g)
                     /\ tasks[w][g].pc \in {"fallback", "done"}

\* the batch endpoint is absent: the batch call of a group of two keys was
\* answered 404, and the single-key query of the first key has been issued
C24_Witness ==
  /\ mpc = "running"
  /\ workers = 1
  /\ Len(Group(0, 1)) = 2
  /\ tasks[0][1].pc = "fallback"
  /\ batchAnswer[0][1] = "404"
  /\ posts[0][1] = 1
  /\ gets["apple"] = 1
  /\ gets["banana"] = 0

(***************************************************************************)
(* Claims about the limiter's use of its places                            *)
(***************************************************************************)
\* the tasks that hold a place of the limiter: started, and the finally
\* callback has not run
Admitted == {t \in Tasks : taskState[t] \in {"running", "settled"}}

\* every completion has been handled: no finally callback is pending
CompletionsHandled == \A t \in Tasks : taskState[t] # "settled"

\* a task waits only when every place is taken
WorkConserving ==
  Len(queue) > 0 =>
    /\ active = max
    /\ Cardinality(Admitted) = max
    /\ CompletionsHandled => Cardinality(Running) = max

\* task t was submitted and its caller's promise is not settled yet
Pending(t) == taskState[t] \in {"queued", "running"}

\* the caller's promise of task t is settled, with the result or the error
\* of t
SettledFor(t) ==
  /\ taskState[t] \in {"settled", "finished"}
  /\ settledAs[t] \in {"res", "rej"}

\* C25: the limiter is work-conserving: for every limit C >= 1, after every
\* submission and every completion handled, a task waits in the queue only
\* if exactly C tasks are running; and if every running task completes in
\* the end, every submitted task is started and its caller's promise is
\* settled with the result or the error of that task.
C25_WorkConserving ==
  /\ []WorkConserving
  /\ \A t \in Tasks : Pending(t) ~> SettledFor(t)

\* a task that had to wait behind a full limiter has been started by a
\* completion and has failed, its caller's promise is rejected, and the
\* limiter is full again with a task waiting
C25_Witness ==
  /\ max >= 1
  /\ \E t \in Tasks :
       /\ startedBy[t] = "finally"
       /\ taskState[t] = "finished"
       /\ settledAs[t] = "rej"
  /\ Len(queue) > 0
  /\ CompletionsHandled
  /\ Cardinality(Running) = max
====
